---- MODULE Spec2Model ----
(***************************************************************************)
(* Model lifecycle and evaluation gate of the 2ndmynd learning layer:      *)
(* the versioned model store written by the training scripts, the version  *)
(* resolution used by evaluation and inference, and the regression gate.   *)
(*                                                                         *)
(* Strings that the code compares or sorts (version directory names) are   *)
(* sequences of character codes, so that Python's string order is          *)
(* computed and not assumed.  Floating point values are exact rationals    *)
(* [n |-> numerator, d |-> denominator] with d > 0.                        *)
(***************************************************************************)
EXTENDS Integers, Sequences, FiniteSets, TLC

VARIABLES clock, store, latest, runs, served, report, call, ret

vars == <<clock, store, latest, runs, served, report, call, ret>>

(***************************************************************************)
(* Bounds of the model.                                                    *)
(***************************************************************************)
\* first clock second of the modelled window (seconds field "08")
Epoch == 8
\* number of clock seconds after Epoch the window covers
MaxClock == 2
\* number of training runs (processes) in the interleaved specification
MaxRuns == 2
\* longest enumerated list of (true class, predicted class) pairs
MaxExamples == 2
\* largest number of entries of an enumerated feature mapping
MaxEntries == 2

None == "None"

\* the None of a version name or path (no real name is empty)
NoVersion == <<>>

(***************************************************************************)
(* Version names.                                                          *)
(***************************************************************************)
\* chr(48 + d): the character of a decimal digit
Digit(d) == 48 + d

\* datetime.utcnow().strftime("%Y%m%d-%H%M%S"): zero-padded fixed-width
\* fields.  The window stays within one minute, so the fields above the
\* seconds are the same for every name and are left out; the seconds field
\* is rendered as its two digits.
StrfTime(t) == <<Digit((t % 60) \div 10), Digit((t % 60) % 10)>>

\* f"v{datetime.utcnow().strftime('%Y%m%d_%H%M%S')}"
CohortVersion(t) == <<118>> \o StrfTime(t)

\* the literal "v1"
LibVersion == <<118, 49>>

\* Python str.__lt__: code point order, a proper prefix sorts first
RECURSIVE StrLt(_, _)
StrLt(a, b) ==
    IF a = <<>> THEN b # <<>>
    ELSE IF b = <<>> THEN FALSE
    ELSE IF Head(a) # Head(b) THEN Head(a) < Head(b)
    ELSE StrLt(Tail(a), Tail(b))

\* sorted(...) of a set of names: ascending list
RECURSIVE Sorted(_)
Sorted(S) ==
    IF S = {} THEN <<>>
    ELSE LET m == CHOOSE x \in S : \A y \in S : y = x \/ StrLt(x, y)
         IN  <<m>> \o Sorted(S \ {m})

(***************************************************************************)
(* Model store: store[family] is the family directory: whether it exists   *)
(* and a function from the names of its version directories to             *)
(* directories; a directory is a function from the names of the files it   *)
(* holds to their contents.                                                *)
(***************************************************************************)
EmptyDir == <<>>

NoRoot == [exists |-> FALSE, dirs |-> EmptyDir]

LearningFamilies == {"pressure_selector", "boundary_classifier", "calibrator"}

Families == LearningFamilies \cup {"cohort_engine"}

\* [p for p in root.iterdir() if p.is_dir()]: the training scripts create
\* nothing but version directories under a family root
VersionDirs(root) == DOMAIN root.dirs

\* variant: versions[0]
FirstOf(versions) == versions[1]

\* versions[-1]
LastOf(versions) == versions[Len(versions)]

\* latest_model_dir(models_dir, model_name), on the listing of the root
latest_model_dir(root) ==
    IF ~root.exists THEN NoVersion
    ELSE LET versions == Sorted(VersionDirs(root))
         IN  IF versions # <<>> THEN LastOf(versions) ELSE NoVersion

\* versions.index(current)
IndexOf(versions, current) ==
    CHOOSE i \in 1..Len(versions) :
        versions[i] = current /\ \A j \in 1..(i - 1) : versions[j] # current

\* variant: the lookup of current is left out
previous_model_dir_no_lookup(root, current) ==
    IF ~root.exists THEN NoVersion
    ELSE LET versions == Sorted(VersionDirs(root))
         IN  IF Len(versions) >= 2 THEN versions[Len(versions) - 1] ELSE NoVersion

\* previous_model_dir(models_dir, model_name, current)
previous_model_dir(root, current) ==
    IF ~root.exists THEN NoVersion
    ELSE LET versions == Sorted(VersionDirs(root))
             found    == \E i \in 1..Len(versions) : versions[i] = current
         IN  IF found /\ IndexOf(versions, current) > 1
             THEN versions[IndexOf(versions, current) - 1]
             ELSE IF Len(versions) >= 2 THEN versions[Len(versions) - 1]
             ELSE NoVersion

(***************************************************************************)
(* Feature schema (packages/learning/scripts/feature_schema.py).           *)
(***************************************************************************)
\* FEATURE_KEYS: the first four of the 48 keys, in the order of the list
FEATURE_KEYS == <<"industry_key", "source", "window_rule", "window_days">>

\* the characters of a feature key (and of "notes", a key of the enumerated
\* mappings that is not in the schema), for Python's string order
KeyChars(key) ==
    CASE key = "industry_key" -> <<105, 110, 100, 117, 115, 116, 114, 121, 95, 107, 101, 121>>
      [] key = "source" -> <<115, 111, 117, 114, 99, 101>>
      [] key = "window_rule" -> <<119, 105, 110, 100, 111, 119, 95, 114, 117, 108, 101>>
      [] key = "window_days" -> <<119, 105, 110, 100, 111, 119, 95, 100, 97, 121, 115>>
      [] key = "notes" -> <<110, 111, 116, 101, 115>>

\* sorted(list(feature_keys)) of a set of feature keys
SortedKeys(S) ==
    LET chars == Sorted({KeyChars(k) : k \in S})
    IN  [i \in 1..Len(chars) |-> CHOOSE k \in S : KeyChars(k) = chars[i]]

\* the keys of the "features" mappings of the examples of the training
\* datasets: every example carries every key of the schema
DatasetFeatureKeys == {FEATURE_KEYS[i] : i \in 1..Len(FEATURE_KEYS)}

\* STRING_KEYS of train_cohorts.py
STRING_KEYS == {"industry_key", "source", "window_rule"}

(***************************************************************************)
(* Training scripts.  A script is named by its file and routine.           *)
(***************************************************************************)
PkgPressure   == "packages/learning/scripts/train_pressure_selector.py"
PkgBoundary   == "packages/learning/scripts/train_boundary_classifier.py"
PkgCalibrator == "packages/learning/scripts/train_calibrator.py"
LibCalibrator == "src/lib/learning/train.py:train_calibrator"
LibPressure   == "src/lib/learning/train.py:train_pressure_selector"
LibBoundary   == "src/lib/learning/train.py:train_boundary_classifier"
CohortTrain   == "packages/cohort_engine/train_cohorts.py"

PkgScripts == {PkgPressure, PkgBoundary, PkgCalibrator}

LibScripts == {LibCalibrator, LibPressure, LibBoundary}

Scripts == PkgScripts \cup LibScripts \cup {CohortTrain}

\* the family directory a script writes under
ScriptFamily(s) ==
    CASE s \in {PkgPressure, LibPressure}     -> "pressure_selector"
      [] s \in {PkgBoundary, LibBoundary}     -> "boundary_classifier"
      [] s \in {PkgCalibrator, LibCalibrator} -> "calibrator"
      [] s = CohortTrain                      -> "cohort_engine"

\* the version name a script allocates when it reads the clock at second t
ScriptVersion(s, t) ==
    CASE s \in PkgScripts -> StrfTime(t)
      [] s \in LibScripts -> LibVersion
      [] s = CohortTrain  -> CohortVersion(t)

\* the files each routine writes, in the order it writes them
PkgPressureFiles   == <<"model.pkl", "pressure_keys.json", "metadata.json", "metrics.json">>
PkgBoundaryFiles   == <<"model.pkl", "class_names.json", "metadata.json", "metrics.json">>
PkgCalibratorFiles == <<"model.pkl", "metadata.json", "metrics.json">>
LibCalibratorFiles == <<"model.pkl", "metadata.json">>
LibPressureFiles   == <<"model.pkl", "metadata.json", "pressure_keys.json">>
LibBoundaryFiles   == <<"model.pkl", "metadata.json", "class_names.json">>
CohortFiles        == <<"model.pkl", "ranges.json", "meta.json">>

ScriptFiles(s) ==
    CASE s = PkgPressure   -> PkgPressureFiles
      [] s = PkgBoundary   -> PkgBoundaryFiles
      [] s = PkgCalibrator -> PkgCalibratorFiles
      [] s = LibCalibrator -> LibCalibratorFiles
      [] s = LibPressure   -> LibPressureFiles
      [] s = LibBoundary   -> LibBoundaryFiles
      [] s = CohortTrain   -> CohortFiles

\* the key list a routine encodes its training examples with and records:
\* "feature_names": FEATURE_KEYS in packages/learning/scripts, the sorted
\* keys of the dataset in src/lib/learning/train.py, the numeric keys of the
\* schema in train_cohorts.py
TrainingFeatureNames(s) ==
    CASE s \in PkgScripts -> FEATURE_KEYS
      [] s \in LibScripts -> SortedKeys(DatasetFeatureKeys)
      [] s = CohortTrain  ->
             LET Numeric(k) == k \notin STRING_KEYS IN SelectSeq(FEATURE_KEYS, Numeric)

\* the minimum number of examples a training invocation requires
MinExamples == 10

\* the sizes of the datasets a training invocation may load
ExampleCounts == {MinExamples - 1, MinExamples}

\* whether the invocation stops before training on n loaded examples
\* (train_cohorts.py has no such check)
TooFewExamples(s, n) == s # CohortTrain /\ n < MinExamples

(***************************************************************************)
(* Rationals.                                                              *)
(***************************************************************************)
Rat(n, d) == [n |-> n, d |-> d]

\* the None of a float
NoValue == Rat(0, 0)

RatGt(a, b) == a.n * b.d > b.n * a.d

RatEq(a, b) == a.n * b.d = b.n * a.d

RatSub(a, b) == Rat(a.n * b.d - b.n * a.d, a.d * b.d)

RatAdd(a, b) == Rat(a.n * b.d + b.n * a.d, a.d * b.d)

\* precision@3 values a fitted estimator may score (the estimator is opaque)
PrecisionValues == {Rat(50, 100), Rat(55, 100), Rat(60, 100)}

\* the precision@3 a routine computes and records: only the pressure
\* selector routines compute one
ScriptPrecisions(s) ==
    IF s \in {PkgPressure, LibPressure} THEN PrecisionValues ELSE {NoValue}

\* the cluster scores of a cohort meta.json; no scores in any other file
NoScores ==
    [silhouette_score |-> NoValue, stability_ari |-> NoValue,
     outlier_rate |-> NoValue, min_cluster_size |-> 0]

\* the clusters train_cohorts.py gets on its training data are opaque: the
\* scores it records are those of two clusters of 50 rows each; it records
\* no "stability_ari"
TrainedScores ==
    [silhouette_score |-> Rat(1, 2), stability_ari |-> NoValue,
     outlier_rate |-> Rat(0, 2), min_cluster_size |-> 50]

\* variant: "promoted": True
PromotedFlagSet(f) == IF f = "meta.json" THEN "True" ELSE "absent"

\* "promoted": False in meta.json; the other files hold no such entry
PromotedFlag(f) == IF f = "meta.json" THEN "False" ELSE "absent"

\* what run r writes into file f of version v: the writing run, the
\* "version" entry of a metadata record, the feature key list (in the
\* metadata record and in the pickled cohort model), in the files that hold
\* the metrics dictionary the precision@3 the routine computed, and the
\* promotion flag and cluster scores of a cohort meta.json
FileContent(s, f, v, r, p) ==
    [by |-> r,
     version |-> IF f \in {"metadata.json", "meta.json"} THEN v ELSE NoVersion,
     feature_names |->
         IF f \in {"metadata.json", "meta.json"}
               \/ (f = "model.pkl" /\ s = CohortTrain)
         THEN TrainingFeatureNames(s) ELSE <<>>,
     precision_at_3 |-> IF f \in {"metadata.json", "metrics.json"} THEN p ELSE NoValue,
     promoted |-> PromotedFlag(f),
     scores |-> IF f = "meta.json" THEN TrainedScores ELSE NoScores]

\* model_dir.mkdir(parents=True, exist_ok=True): creates the family root and
\* the version directory when missing, leaves an existing directory as it is
MkDirExistOk(st, fam, v) ==
    LET dirs == st[fam].dirs
    IN  [st EXCEPT ![fam] =
            [exists |-> TRUE,
             dirs |-> IF v \in DOMAIN dirs THEN dirs
                      ELSE [x \in DOMAIN dirs \cup {v} |->
                               IF x = v THEN EmptyDir ELSE dirs[x]]]]

\* open(model_dir / f, "w") ... dump: creates or truncates the file
PutFile(st, fam, v, f, content) ==
    LET dir == st[fam].dirs[v]
    IN  [st EXCEPT ![fam].dirs[v] =
            [x \in DOMAIN dir \cup {f} |-> IF x = f THEN content ELSE dir[x]]]

\* the store after the routine wrote files k..Len of its list
RECURSIVE WriteFrom(_, _, _, _, _, _)
WriteFrom(st, s, v, r, p, k) ==
    IF k > Len(ScriptFiles(s)) THEN st
    ELSE WriteFrom(PutFile(st, ScriptFamily(s), v, ScriptFiles(s)[k],
                           FileContent(s, ScriptFiles(s)[k], v, r, p)),
                   s, v, r, p, k + 1)

(***************************************************************************)
(* Training runs: one process per run.                                     *)
(***************************************************************************)
Runs == 1..MaxRuns

\* a process that was not started: no script, no examples loaded, no exit
IdleRun ==
    [pc |-> "idle", script |-> None, version |-> NoVersion, p3 |-> NoValue,
     written |-> 0, examples |-> 0, exit |-> "none"]

\* the exit status of an invocation that loaded too few examples: the
\* scripts of packages/learning raise ValueError, which nothing catches;
\* main of src/lib/learning/train.py prints a message and returns
RejectedExit(s) == IF s \in LibScripts THEN "zero" ELSE "nonzero"

\* an invocation that stopped on too few examples (n), before any version
Rejected(s, n) ==
    [IdleRun EXCEPT !.pc = "rejected", !.script = s, !.examples = n,
                    !.exit = RejectedExit(s)]

\* an invocation that loaded n examples, wrote its last file and returned
\* version v
Returned(s, v, n) ==
    [IdleRun EXCEPT !.pc = "done", !.script = s, !.version = v, !.examples = n,
                    !.exit = "zero"]

\* run ids are handed out in order
MayStart(r) == runs[r].pc = "idle" /\ \A q \in 1..(r - 1) : runs[q].pc # "idle"

\* load the examples, check their number, fit, score, read the clock
StartTrain(r, s) ==
    /\ MayStart(r)
    /\ \E n \in ExampleCounts, p \in ScriptPrecisions(s) :
          runs' = [runs EXCEPT ![r] =
              IF TooFewExamples(s, n) THEN Rejected(s, n)
              ELSE [pc |-> "mkdir", script |-> s, version |-> ScriptVersion(s, clock),
                    p3 |-> p, written |-> 0, examples |-> n, exit |-> "none"]]
    /\ UNCHANGED <<clock, store, latest, served, report, call, ret>>

\* model_dir.mkdir(parents=True, exist_ok=True)
MkDir(r) ==
    /\ runs[r].pc = "mkdir"
    /\ store' = MkDirExistOk(store, ScriptFamily(runs[r].script), runs[r].version)
    /\ runs' = [runs EXCEPT ![r].pc = "write"]
    /\ UNCHANGED <<clock, latest, served, report, call, ret>>

\* the next dump of the routine
WriteFile(r) ==
    /\ runs[r].pc = "write"
    /\ LET s == runs[r].script
           k == runs[r].written + 1
           f == ScriptFiles(s)[k]
       IN  /\ store' = PutFile(store, ScriptFamily(s), runs[r].version, f,
                               FileContent(s, f, runs[r].version, r, runs[r].p3))
           /\ runs' = [runs EXCEPT ![r] =
                  IF k = Len(ScriptFiles(s)) THEN Returned(s, runs[r].version, runs[r].examples)
                  ELSE [runs[r] EXCEPT !.written = k]]
    /\ UNCHANGED <<clock, latest, served, report, call, ret>>

\* a whole training invocation with no other process running in between
TrainRun(r, s) ==
    /\ MayStart(r)
    /\ \E n \in ExampleCounts, p \in ScriptPrecisions(s) :
          IF TooFewExamples(s, n)
          THEN /\ runs' = [runs EXCEPT ![r] = Rejected(s, n)]
               /\ store' = store
          ELSE LET v == ScriptVersion(s, clock)
               IN  /\ store' = WriteFrom(MkDirExistOk(store, ScriptFamily(s), v), s, v, r, p, 1)
                   /\ runs' = [runs EXCEPT ![r] = Returned(s, v, n)]
    /\ UNCHANGED <<clock, latest, served, report, call, ret>>

\* the wall clock reaches the next second
Tick ==
    /\ clock < Epoch + MaxClock
    /\ clock' = clock + 1
    /\ UNCHANGED <<store, latest, runs, served, report, call, ret>>

(***************************************************************************)
(* Inference.                                                              *)
(***************************************************************************)
\* the version a family root holds under name v, and the files in it
HasDir(root, v) == root.exists /\ v \in DOMAIN root.dirs

HasFile(root, v, f) == HasDir(root, v) /\ f \in DOMAIN root.dirs[v]

NoOutput == [status |-> "none"]

\* the side file load_models opens without checking that it exists
SideFile(fam) ==
    CASE fam = "pressure_selector"   -> "pressure_keys.json"
      [] fam = "boundary_classifier" -> "class_names.json"
      [] fam = "calibrator"          -> "model.pkl"

\* load_models: a family is loaded when its latest directory holds model.pkl
Loaded(st, fam) ==
    LET path == latest_model_dir(st[fam])
    IN  path # NoVersion /\ HasFile(st[fam], path, "model.pkl")

\* the "version" load_models reports for a loaded family
LoadedVersion(st, fam) ==
    LET path == latest_model_dir(st[fam])
    IN  IF HasFile(st[fam], path, "metadata.json")
        THEN st[fam].dirs[path]["metadata.json"].version
        ELSE path

\* load_models and main of infer.py: the versions served per loaded family
\* and the key list features_to_array encodes the input with, or the
\* uncaught error of opening a missing side file
load_models(st) ==
    LET loaded == {fam \in LearningFamilies : Loaded(st, fam)}
    IN  IF \E fam \in loaded : ~HasFile(st[fam], latest_model_dir(st[fam]), SideFile(fam))
        THEN [status |-> "error", error |-> "FileNotFoundError"]
        ELSE [status |-> "ok",
              versions |-> [fam \in loaded |-> LoadedVersion(st, fam)],
              feature_keys |-> FEATURE_KEYS]

\* "latest"
LatestSentinel == <<108, 97, 116, 101, 115, 116>>

\* no LATEST.json
NoPointer == [recorded |-> FALSE, model_version |-> NoVersion]

\* infer_cohort: version resolution and the loads that follow it
infer_cohort(root, pointer, model_version) ==
    IF model_version = LatestSentinel /\ ~pointer.recorded
    THEN [status |-> "error", error |-> "NoPromotedModel"]
    ELSE LET v == IF model_version = LatestSentinel THEN pointer.model_version
                  ELSE model_version
         IN  IF ~HasDir(root, v)
             THEN [status |-> "error", error |-> "ModelDirectoryNotFound"]
             ELSE IF ~HasFile(root, v, "model.pkl")
             THEN [status |-> "error", error |-> "ModelNotFound"]
             ELSE IF ~HasFile(root, v, "ranges.json")
             THEN [status |-> "error", error |-> "RangesNotFound"]
             ELSE [status |-> "ok",
                   versions |-> [fam \in {"cohort_engine"} |-> v],
                   feature_keys |-> root.dirs[v]["model.pkl"].feature_names]

\* python infer.py --models ... --features ...: the script takes no version
\* argument, every invocation asks for the latest models
LoadModels ==
    /\ served' = [selector |-> LatestSentinel, result |-> load_models(store)]
    /\ UNCHANGED <<clock, store, latest, runs, report, call, ret>>

\* the version names an invocation may be given
VersionNames ==
    {StrfTime(t) : t \in Epoch..(Epoch + MaxClock)}
        \cup {CohortVersion(t) : t \in Epoch..(Epoch + MaxClock)}
        \cup {LibVersion}

\* the version names train_cohorts.py gives in the window
CohortVersionNames == {CohortVersion(t) : t \in Epoch..(Epoch + MaxClock)}

\* python infer_cohort.py --model_version=...
InferCohort(model_version) ==
    /\ served' = [selector |-> model_version,
                  result |-> infer_cohort(store["cohort_engine"], latest, model_version)]
    /\ UNCHANGED <<clock, store, latest, runs, report, call, ret>>

\* promotion: records an existing cohort version in LATEST.json
Promote(v) ==
    /\ HasDir(store["cohort_engine"], v)
    /\ latest' = [recorded |-> TRUE, model_version |-> v]
    /\ UNCHANGED <<clock, store, runs, served, report, call, ret>>

(***************************************************************************)
(* Cohort evaluation (packages/cohort_engine/evaluate_cohorts.py).         *)
(***************************************************************************)
\* the 50 of max(50, 0.02 * len(labels))
MinClusterRows == 50

\* the 100 of len(X) >= 100
StabilityRows == 100

\* the evaluation datasets: the number of rows the stored estimator assigns
\* to each cluster, and the silhouette and ARI scores the estimator gets on
\* the data (the estimator is opaque; with its fixed random_state values the
\* scores are a function of estimator and data).  One dataset has 99 rows
\* and one 100.
CohortDatasets ==
    {[counts |-> <<MinClusterRows - 1, MinClusterRows>>,
      silhouette |-> Rat(1, 4), ari |-> Rat(3, 4)],
     [counts |-> <<MinClusterRows, StabilityRows - MinClusterRows>>,
      silhouette |-> Rat(2, 4), ari |-> Rat(2, 4)]}

RECURSIVE SumOf(_)
SumOf(xs) == IF xs = <<>> THEN 0 ELSE Head(xs) + SumOf(Tail(xs))

\* counts < max(50, 0.02 * len(labels)), with 0.02 = 1/50
BelowMinThreshold(count, rows) == count < MinClusterRows \/ 50 * count < rows

\* the four scores evaluate_cohort_engine computes on a dataset
CohortScores(data) ==
    [silhouette_score |-> data.silhouette,
     stability_ari |-> IF SumOf(data.counts) >= StabilityRows THEN data.ari ELSE NoValue,
     outlier_rate |->
         Rat(Cardinality({i \in 1..Len(data.counts) :
                             BelowMinThreshold(data.counts[i], SumOf(data.counts))}),
             Len(data.counts)),
     min_cluster_size |->
         data.counts[CHOOSE i \in 1..Len(data.counts) :
                        \A j \in 1..Len(data.counts) : data.counts[i] <= data.counts[j]]]

\* variant: the outlier rate is added to the recorded one
patch_meta_accumulating(meta, data) ==
    [meta EXCEPT !.scores =
        [CohortScores(data) EXCEPT !.outlier_rate =
            IF meta.scores.outlier_rate = NoValue THEN CohortScores(data).outlier_rate
            ELSE RatAdd(meta.scores.outlier_rate, CohortScores(data).outlier_rate)]]

\* meta = json.load(f); the four assignments; json.dump(meta, f)
patch_meta(meta, data) == [meta EXCEPT !.scores = CohortScores(data)]

\* evaluate_cohort_engine(model_version, data_path, models_dir): the family
\* directory it leaves; an exception before the patch leaves it as it is
evaluate_cohort_engine(root, model_version, data) ==
    IF ~HasDir(root, model_version)
          \/ ~HasFile(root, model_version, "model.pkl")
          \/ ~HasFile(root, model_version, "meta.json")
    THEN root
    ELSE [root EXCEPT !.dirs[model_version]["meta.json"] =
             patch_meta(root.dirs[model_version]["meta.json"], data)]

\* python evaluate_cohorts.py --model_version=... --data_path=...
EvaluateCohorts(model_version, data) ==
    /\ store' = [store EXCEPT !["cohort_engine"] =
                    evaluate_cohort_engine(store["cohort_engine"], model_version, data)]
    /\ call' = [fn |-> "evaluate_cohort_engine",
                model_version |-> model_version, data |-> data]
    /\ UNCHANGED <<clock, latest, runs, served, report, ret>>

(***************************************************************************)
(* Evaluation gate (packages/learning/scripts/evaluate.py).                *)
(***************************************************************************)
BoundaryClasses == {"confirm_mappings", "needs_followup", "stable", "unknown"}


\* evaluate_boundary: the false-safe rate of the gate's report
evaluate_boundary_false_safe_rate(labels) ==
    LET IsConfirm(l)   == l.true = "confirm_mappings"
        IsFalseSafe(l) == l.true = "confirm_mappings" /\ l.pred = "stable"
        confirm_total  == Cardinality({i \in 1..Len(labels) : IsConfirm(labels[i])})
        false_safe     == Cardinality({i \in 1..Len(labels) : IsFalseSafe(labels[i])})
    IN  IF confirm_total > 0 THEN Rat(false_safe, confirm_total) ELSE Rat(0, 1)

\* variant: the division without the total_unsafe > 0 guard
lib_false_safe_rate_unguarded(labels) ==
    LET IsUnsafe(l)    == l.true # "stable" /\ l.true # "unknown"
        IsFalseSafe(l) == IsUnsafe(l) /\ l.pred = "stable"
    IN  Rat(Cardinality({i \in 1..Len(labels) : IsFalseSafe(labels[i])}),
            Cardinality({i \in 1..Len(labels) : IsUnsafe(labels[i])}))

\* evaluate_boundary_classifier and train_boundary_classifier of
\* src/lib/learning: the false-safe rate over the unsafe true classes
lib_false_safe_rate(labels) ==
    LET IsUnsafe(l)    == l.true # "stable" /\ l.true # "unknown"
        IsFalseSafe(l) == IsUnsafe(l) /\ l.pred = "stable"
        total_unsafe     == Cardinality({i \in 1..Len(labels) : IsUnsafe(labels[i])})
        false_safe_count == Cardinality({i \in 1..Len(labels) : IsFalseSafe(labels[i])})
    IN  IF total_unsafe > 0 THEN Rat(false_safe_count, total_unsafe) ELSE Rat(0, 1)

NoResult == [found |-> FALSE]

\* a model directory misses a file the evaluation opens
Misses(root, v, files) == \E f \in files : ~HasFile(root, v, f)

\* evaluate_pressure: None without a version, else the scored precision@3
\* and the precision@3 recorded in the previous version's metrics.json
evaluate_pressure(st, p) ==
    LET root      == st["pressure_selector"]
        model_dir == latest_model_dir(root)
        prev_dir  == previous_model_dir(root, model_dir)
    IN  IF model_dir = NoVersion THEN NoResult
        ELSE [found |-> TRUE,
              model_version |-> model_dir,
              precision_at_3 |-> p,
              previous_precision_at_3 |->
                  IF prev_dir # NoVersion /\ HasFile(root, prev_dir, "metrics.json")
                  THEN root.dirs[prev_dir]["metrics.json"].precision_at_3
                  ELSE NoValue]

\* evaluate_boundary: None without a version
evaluate_boundary(st, labels) ==
    LET model_dir == latest_model_dir(st["boundary_classifier"])
    IN  IF model_dir = NoVersion THEN NoResult
        ELSE [found |-> TRUE,
              model_version |-> model_dir,
              false_safe_rate |-> evaluate_boundary_false_safe_rate(labels)]

\* the files the three evaluate_* functions open in the latest directories
EvaluationCrashes(st) ==
    \/ LET v == latest_model_dir(st["pressure_selector"])
       IN  v # NoVersion /\ Misses(st["pressure_selector"], v, {"model.pkl", "pressure_keys.json"})
    \/ LET v == latest_model_dir(st["boundary_classifier"])
       IN  v # NoVersion /\ Misses(st["boundary_classifier"], v, {"model.pkl", "class_names.json"})
    \/ LET v == latest_model_dir(st["calibrator"])
       IN  v # NoVersion /\ Misses(st["calibrator"], v, {"model.pkl"})

\* the thresholds of the gate: 0.02 and 0.05
FalseSafeThreshold == Rat(2, 100)

PrecisionDropThreshold == Rat(5, 100)

\* false_safe_rate > 0.02
FalseSafeFires(false_safe_rate) == RatGt(false_safe_rate, FalseSafeThreshold)

\* variant: drop >= 0.05
PrecisionDropFiresAtMargin(pressure) ==
    /\ pressure.found
    /\ pressure.previous_precision_at_3 # NoValue
    /\ ~RatGt(PrecisionDropThreshold,
              RatSub(pressure.previous_precision_at_3, pressure.precision_at_3))

\* pressure and previous_precision_at_3 is not None and drop > 0.05
PrecisionDropFires(pressure) ==
    /\ pressure.found
    /\ pressure.previous_precision_at_3 # NoValue
    /\ RatGt(RatSub(pressure.previous_precision_at_3, pressure.precision_at_3),
             PrecisionDropThreshold)

\* variant: the precision drop sets the status and records no entry
RegressionDetailsWithoutDrop(false_safe_rate, pressure) ==
    IF FalseSafeFires(false_safe_rate)
    THEN <<[text |-> "false-safe rate", value |-> false_safe_rate]>>
    ELSE <<[text |-> "no regression triggers", value |-> NoValue]>>

\* regression_details
RegressionDetails(false_safe_rate, pressure) ==
    LET a == IF FalseSafeFires(false_safe_rate)
             THEN <<[text |-> "false-safe rate", value |-> false_safe_rate]>> ELSE <<>>
        b == IF PrecisionDropFires(pressure)
             THEN <<[text |-> "precision@3 drop",
                     value |-> RatSub(pressure.previous_precision_at_3,
                                      pressure.precision_at_3)]>>
             ELSE <<>>
    IN  IF a \o b = <<>> THEN <<[text |-> "no regression triggers", value |-> NoValue]>>
        ELSE a \o b

\* regression_status
RegressionStatus(false_safe_rate, pressure) ==
    IF FalseSafeFires(false_safe_rate) \/ PrecisionDropFires(pressure)
    THEN "FAIL" ELSE "PASS"

\* main of evaluate.py: the summary it writes
gate(st, labels, p) ==
    IF EvaluationCrashes(st) THEN [status |-> "error"]
    ELSE LET pressure == evaluate_pressure(st, p)
             boundary == evaluate_boundary(st, labels)
             false_safe_rate == IF boundary.found THEN boundary.false_safe_rate ELSE Rat(0, 1)
         IN  [status |-> "ok",
              pressure |-> pressure,
              boundary |-> boundary,
              false_safe_rate |-> false_safe_rate,
              regression_status |-> RegressionStatus(false_safe_rate, pressure),
              regression_details |-> RegressionDetails(false_safe_rate, pressure)]

\* [true, pred] label pairs
LabelPairs(trues, preds) == {[true |-> t, pred |-> q] : t \in trues, q \in preds}

\* the labelled examples of the gate's datasets: an unsafe or safe true class
\* and a classifier that predicts one of two classes
GatePairs == LabelPairs({"confirm_mappings", "needs_followup", "stable"},
                        {"confirm_mappings", "stable"})

\* all lists of at most n elements of S
ListsUpTo(S, n) == UNION {[1..k -> S] : k \in 0..n}

\* a list of k copies of x
Repeat(x, k) == [i \in 1..k |-> x]

\* the datasets of the gate: every list of fewer than MaxExamples labelled
\* examples, and every single example after 49 correctly classified
\* "confirm_mappings" examples (one false-safe example in 50 is a rate of
\* exactly 0.02)
GateDatasets ==
    LET pad == Repeat([true |-> "confirm_mappings", pred |-> "confirm_mappings"], 49)
    IN  ListsUpTo(GatePairs, MaxExamples - 1) \cup {pad \o <<l>> : l \in GatePairs}

\* variant: a FAIL verdict withdraws the latest pressure selector version
store_after_evaluation_rollback(st, summary) ==
    LET root == st["pressure_selector"]
        v    == latest_model_dir(root)
    IN  IF summary.status = "ok" /\ summary.regression_status = "FAIL" /\ v # NoVersion
        THEN [st EXCEPT !["pressure_selector"] =
                 [exists |-> TRUE, dirs |-> [w \in DOMAIN root.dirs \ {v} |-> root.dirs[w]]]]
        ELSE st

\* the models directory after main of evaluate.py: main opens the files of
\* the models directory for reading only, and its mkdir and its three
\* writes go to output_dir, the timestamped directory under --output
store_after_evaluation(st, summary) == st

\* python evaluate.py --models ... --dataset ... --output ...
Evaluate ==
    /\ \E labels \in GateDatasets, p \in PrecisionValues :
          /\ report' = gate(store, labels, p)
          /\ store' = store_after_evaluation(store, gate(store, labels, p))
    /\ UNCHANGED <<clock, latest, runs, served, call, ret>>

(***************************************************************************)
(* Ranking metrics (precision_recall_at_3 of evaluate.py and                *)
(* train_pressure_selector.py).                                            *)
(***************************************************************************)
\* the 3 of [-3:] and of hits / 3.0
TopK == 3

\* the number of tags of the stored tag list in the enumerated datasets
NumTags == TopK + 1

Tags == 1..NumTags

RECURSIVE RatSum(_)
RatSum(xs) == IF xs = <<>> THEN Rat(0, 1) ELSE RatAdd(Head(xs), RatSum(Tail(xs)))

\* float(np.mean(xs)) of a non-empty list
Mean(xs) == Rat(RatSum(xs).n, RatSum(xs).d * Len(xs))

\* np.argsort(score_row): the index lists in ascending score order.  The
\* default sort kind is not stable, so the order among equal scores is the
\* choice of the numpy build's sort kernel.
Argsorts(score_row) ==
    {perm \in [1..Len(score_row) -> 1..Len(score_row)] :
        /\ \A i, j \in 1..Len(score_row) : i # j => perm[i] # perm[j]
        /\ \A i, j \in 1..Len(score_row) :
              i < j => score_row[perm[i]] <= score_row[perm[j]]}

\* perm[-3:]
LastK(perm) ==
    [i \in 1..(IF Len(perm) < TopK THEN Len(perm) ELSE TopK) |->
        perm[i + (IF Len(perm) < TopK THEN 0 ELSE Len(perm) - TopK)]]

\* the elements of a list
Range(xs) == {xs[i] : i \in 1..Len(xs)}

\* the score rows of the enumerated datasets: all different, all equal, and
\* a tie across the boundary of the top 3 (1, 1, 2, 2)
ScoreRows ==
    {[t \in Tags |-> t],
     [t \in Tags |-> 1],
     [t \in Tags |-> IF 2 * t <= NumTags THEN 1 ELSE 2]}

\* the 0/1 label rows of the enumerated datasets: no true tag, one, or 3
TrueRows ==
    {row \in [Tags -> {0, 1}] :
        Cardinality({t \in Tags : row[t] = 1}) \in {0, 1, TopK}}

\* set(np.argsort(score_row)[-3:]) under each order the sort may give
TopKSets(score_row) == {Range(LastK(perm)) : perm \in Argsorts(score_row)}

\* which top_k the build in use gives for each score row
ArgsortBuilds ==
    {b \in [ScoreRows -> UNION {TopKSets(r) : r \in ScoreRows}] :
        \A r \in ScoreRows : b[r] \in TopKSets(r)}

\* np.where(true_row == 1)[0]
TrueIndices(true_row) == {t \in 1..Len(true_row) : true_row[t] = 1}

\* len(set(top_k) & set(true_indices))
Hits(true_row, score_row, argsort) ==
    Cardinality(argsort[score_row] \cap TrueIndices(true_row))

\* variant: an example with no true tag counts as 0.0 in both means
precision_recall_at_3_counting_empty(y_true, y_scores, argsort) ==
    LET precisions == [j \in 1..Len(y_true) |->
                          Rat(Hits(y_true[j], y_scores[j], argsort), TopK)]
        recalls    == [j \in 1..Len(y_true) |->
                          IF TrueIndices(y_true[j]) = {} THEN Rat(0, 1)
                          ELSE Rat(Hits(y_true[j], y_scores[j], argsort),
                                   Cardinality(TrueIndices(y_true[j])))]
    IN  IF precisions = <<>>
        THEN [precision |-> Rat(0, 1), recall |-> Rat(0, 1)]
        ELSE [precision |-> Mean(precisions), recall |-> Mean(recalls)]

\* precision_recall_at_3(y_true, y_scores)
precision_recall_at_3(y_true, y_scores, argsort) ==
    LET Scored(i)  == TrueIndices(y_true[i]) # {}
        kept       == SelectSeq([i \in 1..Len(y_true) |-> i], Scored)
        precisions == [j \in 1..Len(kept) |->
                          Rat(Hits(y_true[kept[j]], y_scores[kept[j]], argsort), TopK)]
        recalls    == [j \in 1..Len(kept) |->
                          Rat(Hits(y_true[kept[j]], y_scores[kept[j]], argsort),
                              Cardinality(TrueIndices(y_true[kept[j]])))]
    IN  IF precisions = <<>>
        THEN [precision |-> Rat(0, 1), recall |-> Rat(0, 1)]
        ELSE [precision |-> Mean(precisions), recall |-> Mean(recalls)]

\* the scored examples of the enumerated datasets: a label row and a score row
RankedExamples == {[true |-> t, scores |-> r] : t \in TrueRows, r \in ScoreRows}

(***************************************************************************)
(* Feature codec: encode_value and vectorize_features of feature_schema.py *)
(* and the two extract_feature_matrix of src/lib/learning.                 *)
(***************************************************************************)
\* Python values of a parsed feature mapping
PyNone == [type |-> "NoneType"]

PyBool(b) == [type |-> "bool", b |-> b]

PyNumber(x) == [type |-> "number", x |-> x]

PyStr(str) == [type |-> "str", s |-> str]

\* STRING_ENCODERS: the keys that have a table, and the tables
EncodedKeys == {"industry_key", "source", "window_rule"}

STRING_ENCODERS(key) ==
    CASE key = "industry_key" ->
             [unknown |-> 0, hvac |-> 1, plumbing |-> 2, electrical |-> 3,
              landscaping |-> 4, cleaning |-> 5]
      [] key = "source" -> [mock |-> 0, real |-> 1]
      [] key = "window_rule" ->
             [last_90_days |-> 0, cap_100_closed |-> 1, last_12_months |-> 2, custom |-> 3]

\* encode_value(key, value)
encode_value(key, value) ==
    IF value = PyNone THEN Rat(0, 1)
    ELSE IF value.type = "bool" THEN (IF value.b THEN Rat(1, 1) ELSE Rat(0, 1))
    ELSE IF value.type = "number" THEN value.x
    ELSE IF value.type = "str"
    THEN IF key \in EncodedKeys
         THEN IF value.s \in DOMAIN STRING_ENCODERS(key)
              THEN Rat(STRING_ENCODERS(key)[value.s], 1) ELSE Rat(0, 1)
         ELSE Rat(0, 1)
    ELSE Rat(0, 1)

\* features.get(key) of a mapping held as the list of its items in
\* insertion order (its keys are different)
Get(features, key) ==
    IF \E i \in 1..Len(features) : features[i].key = key
    THEN features[CHOOSE i \in 1..Len(features) : features[i].key = key].value
    ELSE PyNone

\* vectorize_features(features)
vectorize_features(features) ==
    [i \in 1..Len(FEATURE_KEYS) |-> encode_value(FEATURE_KEYS[i], Get(features, FEATURE_KEYS[i]))]

\* the strings of the enumerated mappings
StringValues == {"hvac", "custom"}

\* hash(str(val)) % 1000: str hashes are salted with a seed drawn when the
\* interpreter starts (PYTHONHASHSEED unset), so each process has its own
\* function from strings to residues
Hashes == [StringValues -> {1, 999}]

\* the branches of the loop body of both extract_feature_matrix
lib_encode_value(val, hash) ==
    IF val = PyNone THEN Rat(0, 1)
    ELSE IF val.type = "bool" THEN (IF val.b THEN Rat(1, 1) ELSE Rat(0, 1))
    ELSE IF val.type = "number" THEN val.x
    ELSE Rat(hash[val.s], 1)

\* extract_feature_matrix(examples) of train.py: the matrix and the sorted
\* keys of the examples
train_extract_feature_matrix(examples, hash) ==
    LET feature_keys ==
            SortedKeys(UNION {{examples[e][i].key : i \in 1..Len(examples[e])} :
                                 e \in 1..Len(examples)})
    IN  [X |-> [e \in 1..Len(examples) |->
                   [k \in 1..Len(feature_keys) |->
                       lib_encode_value(Get(examples[e], feature_keys[k]), hash)]],
         feature_keys |-> feature_keys]

\* extract_feature_matrix(examples, feature_names) of evaluate.py
evaluate_extract_feature_matrix(examples, feature_names, hash) ==
    [e \in 1..Len(examples) |->
        [k \in 1..Len(feature_names) |->
            lib_encode_value(Get(examples[e], feature_names[k]), hash)]]

\* the values and keys of the enumerated mappings
FeatureValues ==
    {PyNone, PyBool(TRUE), PyBool(FALSE), PyNumber(Rat(2, 1)), PyNumber(Rat(1, 2))}
        \cup {PyStr(str) : str \in StringValues}

MappingKeys == {FEATURE_KEYS[i] : i \in 1..Len(FEATURE_KEYS)} \cup {"notes"}

\* the mappings of at most MaxEntries entries, as item lists
Mappings ==
    {m \in ListsUpTo([key : MappingKeys, value : FeatureValues], MaxEntries) :
        \A i, j \in 1..Len(m) : i # j => m[i].key # m[j].key}

\* the orders of n items
Orders(n) == {p \in [1..n -> 1..n] : \A i, j \in 1..n : i # j => p[i] # p[j]}

(***************************************************************************)
(* Single routines applied to enumerated arguments.                        *)
(***************************************************************************)
NoCall == [fn |-> "none"]

\* the listings of a family root
Listings ==
    {NoRoot} \cup {[exists |-> TRUE, dirs |-> [v \in S |-> EmptyDir]] : S \in SUBSET VersionNames}

CallLatest ==
    /\ call = NoCall
    /\ \E root \in Listings :
          /\ call' = [fn |-> "latest_model_dir", root |-> root]
          /\ ret' = latest_model_dir(root)
    /\ UNCHANGED <<clock, store, latest, runs, served, report>>

CallPrevious ==
    /\ call = NoCall
    /\ \E root \in Listings, current \in VersionNames :
          /\ call' = [fn |-> "previous_model_dir", root |-> root, current |-> current]
          /\ ret' = previous_model_dir(root, current)
    /\ UNCHANGED <<clock, store, latest, runs, served, report>>

CallEvaluateBoundary ==
    /\ call = NoCall
    /\ \E labels \in ListsUpTo(LabelPairs(BoundaryClasses, BoundaryClasses), MaxExamples) :
          /\ call' = [fn |-> "evaluate_boundary", labels |-> labels]
          /\ ret' = evaluate_boundary_false_safe_rate(labels)
    /\ UNCHANGED <<clock, store, latest, runs, served, report>>

CallLibEvaluateBoundary ==
    /\ call = NoCall
    /\ \E labels \in ListsUpTo(LabelPairs(BoundaryClasses, BoundaryClasses), MaxExamples) :
          /\ call' = [fn |-> "evaluate_boundary_classifier", labels |-> labels]
          /\ ret' = lib_false_safe_rate(labels)
    /\ UNCHANGED <<clock, store, latest, runs, served, report>>

\* precision_recall_at_3 on a dataset, and on the same dataset with an
\* example that has no true tag put before or after it
CallPrecisionRecall ==
    /\ call = NoCall
    /\ \E examples \in ListsUpTo(RankedExamples, MaxExamples), argsort \in ArgsortBuilds,
          front \in BOOLEAN :
          LET y_true   == [i \in 1..Len(examples) |-> examples[i].true]
              y_scores == [i \in 1..Len(examples) |-> examples[i].scores]
              pos      == IF front THEN 0 ELSE Len(examples)
              r        == [t \in Tags |-> 1]
              t_more   == SubSeq(y_true, 1, pos) \o <<[t \in Tags |-> 0]>>
                             \o SubSeq(y_true, pos + 1, Len(y_true))
              s_more   == SubSeq(y_scores, 1, pos) \o <<r>>
                             \o SubSeq(y_scores, pos + 1, Len(y_scores))
          IN  /\ call' = [fn |-> "precision_recall_at_3",
                          y_true |-> y_true, y_scores |-> y_scores]
              /\ ret' = [value |-> precision_recall_at_3(y_true, y_scores, argsort),
                         with_empty |-> precision_recall_at_3(t_more, s_more, argsort)]
    /\ UNCHANGED <<clock, store, latest, runs, served, report>>

\* xs[::-1]
Reversed(xs) == [i \in 1..Len(xs) |-> xs[Len(xs) + 1 - i]]

\* np.argsort(scores)[-3:][::-1] of main of infer.py: the positions, in the
\* stored tag list, of the suggested tags
top_indices(perm) == Reversed(LastK(perm))

\* the pressure selector branch of main of infer.py on the scores of one
\* input
CallTopIndices ==
    /\ call = NoCall
    /\ \E scores \in ScoreRows :
          \E perm \in Argsorts(scores) :
              /\ call' = [fn |-> "top_indices", scores |-> scores]
              /\ ret' = top_indices(perm)
    /\ UNCHANGED <<clock, store, latest, runs, served, report>>

\* vectorize_features on a mapping, on the same mapping again,
\* in another process, and on the mapping with its items in another order
CallVectorize ==
    /\ call = NoCall
    /\ \E features \in Mappings :
          \E p \in Orders(Len(features)) :
              /\ call' = [fn |-> "vectorize_features", features |-> features,
                          schema |-> FEATURE_KEYS]
              /\ ret' = [first |-> vectorize_features(features),
                         again |-> vectorize_features(features),
                         other_process |-> vectorize_features(features),
                         permuted |-> vectorize_features([i \in 1..Len(features) |-> features[p[i]]])]
    /\ UNCHANGED <<clock, store, latest, runs, served, report>>

\* extract_feature_matrix of train.py on a dataset of one example, twice in
\* one process, in another process, and with the items in reverse order
CallTrainExtract ==
    /\ call = NoCall
    /\ \E features \in Mappings, hash \in Hashes, other \in Hashes :
          \E p \in {Reversed([i \in 1..Len(features) |-> i])} :
              /\ call' = [fn |-> "extract_feature_matrix", features |-> features,
                          schema |-> train_extract_feature_matrix(<<features>>, hash).feature_keys]
              /\ ret' = [first |-> train_extract_feature_matrix(<<features>>, hash).X[1],
                         again |-> train_extract_feature_matrix(<<features>>, hash).X[1],
                         other_process |-> train_extract_feature_matrix(<<features>>, other).X[1],
                         permuted |->
                             train_extract_feature_matrix(
                                 <<[i \in 1..Len(features) |-> features[p[i]]]>>, hash).X[1]]
    /\ UNCHANGED <<clock, store, latest, runs, served, report>>

\* extract_feature_matrix of evaluate.py on one example and the feature
\* names recorded by a routine of packages/learning/scripts
CallEvaluateExtract ==
    /\ call = NoCall
    /\ \E features \in Mappings, hash \in Hashes, other \in Hashes :
          \E p \in {Reversed([i \in 1..Len(features) |-> i])} :
              /\ call' = [fn |-> "extract_feature_matrix_named", features |-> features,
                          schema |-> FEATURE_KEYS]
              /\ ret' = [first |-> evaluate_extract_feature_matrix(<<features>>, FEATURE_KEYS, hash)[1],
                         again |-> evaluate_extract_feature_matrix(<<features>>, FEATURE_KEYS, hash)[1],
                         other_process |->
                             evaluate_extract_feature_matrix(<<features>>, FEATURE_KEYS, other)[1],
                         permuted |->
                             evaluate_extract_feature_matrix(
                                 <<[i \in 1..Len(features) |-> features[p[i]]]>>,
                                 FEATURE_KEYS, hash)[1]]
    /\ UNCHANGED <<clock, store, latest, runs, served, report>>

(***************************************************************************)
(* The inference entry points: main of src/lib/learning/infer.py and main  *)
(* of packages/cohort_engine/infer_cohort.py on one --features argument.   *)
(***************************************************************************)
\* float("nan"), which json.loads returns for the literal NaN
NaN == [nan |-> TRUE]

\* the text of --features: text json.loads rejects, or the text of a mapping
Malformed == [wellformed |-> FALSE, items |-> <<>>]

JsonText(features) == [wellformed |-> TRUE, items |-> features]

\* json.loads that takes rejected text for an empty mapping
json_loads_lenient(text) ==
    [status |-> "ok", features |-> text.items]

\* json.loads(args.features)
json_loads(text) ==
    IF text.wellformed
    THEN [status |-> "ok", features |-> text.items]
    ELSE [status |-> "error", features |-> <<>>]

\* features_to_array(features): the row every loaded estimator is given
features_to_array(features) == vectorize_features(features)

\* the outcome of an invocation: exit status, the calls made in order, the
\* families whose estimator was given the row X
Outcome(exit, log, versions, feature_keys, X) ==
    [exit |-> exit, log |-> log, versions |-> versions,
     feature_keys |-> feature_keys, X |-> X]

NoVersions == [fam \in {} |-> NoVersion]

\* main of infer.py
infer_main(st, text) ==
    LET parsed == json_loads(text)
    IN  IF parsed.status = "error"
        THEN Outcome("nonzero", <<"json.loads">>, NoVersions, <<>>, <<>>)
        ELSE LET models == load_models(st)
             IN  IF models.status = "error"
                 THEN Outcome("nonzero", <<"json.loads", "load_models">>, NoVersions, <<>>, <<>>)
                 ELSE IF DOMAIN models.versions = {}
                 THEN Outcome("zero", <<"json.loads", "load_models">>, NoVersions, <<>>, <<>>)
                 ELSE Outcome("zero", <<"json.loads", "load_models", "predict">>,
                              models.versions, models.feature_keys,
                              features_to_array(parsed.features))

\* float(value) of a value that is not None
ValueError == [error |-> "ValueError"]

py_float(value) ==
    IF value.type = "bool" THEN (IF value.b THEN Rat(1, 1) ELSE Rat(0, 1))
    ELSE IF value.type = "number" THEN value.x
    ELSE ValueError

\* np.nan_to_num(X, nan=0.0) on one entry
nan_to_num(x) == IF x = NaN THEN Rat(0, 1) ELSE x

\* the input row built from the keys of the live schema of the learning
\* package
cohort_vector_live_schema(feature_keys, features) ==
    LET raw == [i \in 1..Len(FEATURE_KEYS) |->
                   IF Get(features, FEATURE_KEYS[i]) = PyNone THEN Rat(0, 1)
                   ELSE py_float(Get(features, FEATURE_KEYS[i]))]
    IN  IF \E i \in 1..Len(raw) : raw[i] = ValueError
        THEN [status |-> "error", X |-> <<>>]
        ELSE [status |-> "ok", X |-> [i \in 1..Len(raw) |-> nan_to_num(raw[i])]]

\* the loop over feature_keys of infer_cohort and the nan_to_num after it
cohort_vector(feature_keys, features) ==
    LET raw == [i \in 1..Len(feature_keys) |->
                   IF Get(features, feature_keys[i]) = PyNone THEN Rat(0, 1)
                   ELSE py_float(Get(features, feature_keys[i]))]
    IN  IF \E i \in 1..Len(raw) : raw[i] = ValueError
        THEN [status |-> "error", X |-> <<>>]
        ELSE [status |-> "ok", X |-> [i \in 1..Len(raw) |-> nan_to_num(raw[i])]]

\* main of infer_cohort.py
infer_cohort_main(root, pointer, model_version, text) ==
    LET parsed == json_loads(text)
    IN  IF parsed.status = "error"
        THEN Outcome("nonzero", <<"json.loads">>, NoVersions, <<>>, <<>>)
        ELSE LET resolved == infer_cohort(root, pointer, model_version)
             IN  IF resolved.status = "error"
                 THEN Outcome("nonzero", <<"json.loads", "infer_cohort">>, NoVersions, <<>>, <<>>)
                 ELSE LET row == cohort_vector(resolved.feature_keys, parsed.features)
                      IN  IF row.status = "error"
                          THEN Outcome("nonzero", <<"json.loads", "infer_cohort">>,
                                       resolved.versions, resolved.feature_keys, <<>>)
                          ELSE Outcome("zero", <<"json.loads", "infer_cohort", "predict">>,
                                       resolved.versions, resolved.feature_keys, row.X)

\* the mappings given as --features
InferenceMappings ==
    {<<>>,
     <<[key |-> "window_days", value |-> PyNumber(NaN)]>>,
     <<[key |-> "window_days", value |-> PyNumber(Rat(2, 1))]>>,
     <<[key |-> "window_days", value |-> PyStr("custom")]>>,
     <<[key |-> "industry_key", value |-> PyStr("hvac")],
       [key |-> "window_days", value |-> PyNumber(Rat(1, 2))]>>}

InferenceTexts == {Malformed} \cup {JsonText(m) : m \in InferenceMappings}

\* python infer.py --models ... --features text
InferMain(text) ==
    /\ served' = [entry |-> "infer", text |-> text, selector |-> LatestSentinel,
                  result |-> infer_main(store, text)]
    /\ UNCHANGED <<clock, store, latest, runs, report, call, ret>>

\* python infer_cohort.py --model_version=... --features text
InferCohortMain(model_version, text) ==
    /\ served' = [entry |-> "infer_cohort", text |-> text, selector |-> model_version,
                  result |-> infer_cohort_main(store["cohort_engine"], latest,
                                               model_version, text)]
    /\ UNCHANGED <<clock, store, latest, runs, report, call, ret>>

(***************************************************************************)
(* The batch encodings of the training routines: load_training_data and    *)
(* the imputation of train_cohorts.py, build_feature_matrix of             *)
(* packages/learning/scripts.                                              *)
(***************************************************************************)
\* the numeric keys train_cohorts.py clusters on
CohortFeatureKeys == TrainingFeatureNames(CohortTrain)

\* load_training_data: the rows of the examples that hold every key
load_training_data(examples) ==
    LET Complete(features) ==
            \A k \in 1..Len(CohortFeatureKeys) : Get(features, CohortFeatureKeys[k]) # PyNone
        kept == SelectSeq(examples, Complete)
    IN  [e \in 1..Len(kept) |->
            [k \in 1..Len(CohortFeatureKeys) |-> Get(kept[e], CohortFeatureKeys[k]).x]]

\* np.nanmedian of one column
nanmedian(column) ==
    LET IsNumber(x) == x # NaN
        xs == SelectSeq(column, IsNumber)
        n  == Len(xs)
        p  == CHOOSE q \in Orders(n) :
                  \A i, j \in 1..n : i < j => ~RatGt(xs[q[i]], xs[q[j]])
    IN  IF n = 0 THEN NaN
        ELSE IF n % 2 = 1 THEN xs[p[(n + 1) \div 2]]
        ELSE Mean(<<xs[p[n \div 2]], xs[p[n \div 2 + 1]]>>)

\* train_cohort_engine up to the matrix given to the scaler: the loaded
\* rows with NaN replaced by the median of the column
train_cohort_matrix(examples) ==
    LET X == load_training_data(examples)
        medians == [k \in 1..Len(CohortFeatureKeys) |->
                       nanmedian([e \in 1..Len(X) |-> X[e][k]])]
    IN  IF X = <<>>
        THEN [status |-> "error", X |-> <<>>]
        ELSE [status |-> "ok",
              X |-> [e \in 1..Len(X) |->
                        [k \in 1..Len(CohortFeatureKeys) |->
                            IF X[e][k] = NaN THEN medians[k] ELSE X[e][k]]]]

\* build_feature_matrix(examples) of the training scripts of
\* packages/learning/scripts
build_feature_matrix(examples) ==
    [e \in 1..Len(examples) |-> vectorize_features(examples[e])]

\* the feature mappings of the examples of a batch: the numeric feature
\* absent, NaN, or a number
BatchNumbers == {Rat(1, 1), Rat(2, 1), Rat(4, 1)}

BatchFeatures ==
    {<<>>} \cup {<<[key |-> "window_days", value |-> PyNumber(x)]>> : x \in BatchNumbers \cup {NaN}}

Batches == ListsUpTo(BatchFeatures, MaxExamples + 1)

\* the position of a key in a key list
KeyIndex(keys, key) == CHOOSE k \in 1..Len(keys) : keys[k] = key

\* train_cohort_engine on a batch: the column of the numeric feature in the
\* matrix the scaler is fitted on
CallCohortBatch ==
    /\ call = NoCall
    /\ \E examples \in Batches :
          LET r == train_cohort_matrix(examples)
          IN  /\ call' = [fn |-> "train_cohort_engine", examples |-> examples]
              /\ ret' = [status |-> r.status,
                         column |-> [e \in 1..Len(r.X) |->
                                        r.X[e][KeyIndex(CohortFeatureKeys, "window_days")]]]
    /\ UNCHANGED <<clock, store, latest, runs, served, report>>

\* build_feature_matrix on a batch: the column of the numeric feature in the
\* matrix the estimator is fitted on
CallBuildFeatureMatrix ==
    /\ call = NoCall
    /\ \E examples \in Batches :
          LET X == build_feature_matrix(examples)
          IN  /\ call' = [fn |-> "build_feature_matrix", examples |-> examples]
              /\ ret' = [status |-> "ok",
                         column |-> [e \in 1..Len(X) |->
                                        X[e][KeyIndex(FEATURE_KEYS, "window_days")]]]
    /\ UNCHANGED <<clock, store, latest, runs, served, report>>

(***************************************************************************)
(* The calibrator targets: extract_targets of train_calibrator.py, the     *)
(* target loop of train_calibrator of src/lib/learning/train.py, and the   *)
(* target loop and mae_for_source of evaluate_calibrator of evaluate.py.   *)
(***************************************************************************)
\* the 50.0 appended for an example without benchmark observation
NeutralTarget == Rat(50, 1)

\* the targets that enter the fit or the error, each with the position of
\* its example in the loaded list
Target(e, y) == [example |-> e, y |-> y]

\* the positions of the examples that hold a benchmark observation
WithBenchmarks(examples) ==
    LET Holds(e) == examples[e] # <<>>
    IN  SelectSeq([e \in 1..Len(examples) |-> e], Holds)

\* extract_targets(examples): examples without observation are left out
extract_targets(examples) ==
    LET filtered == WithBenchmarks(examples)
    IN  [j \in 1..Len(filtered) |-> Target(filtered[j], Mean(examples[filtered[j]]))]

\* the target loop of train_calibrator of train.py
lib_calibrator_targets(examples) ==
    [e \in 1..Len(examples) |->
        Target(e, IF examples[e] # <<>> THEN Mean(examples[e]) ELSE NeutralTarget)]

\* evaluate_calibrator of evaluate.py: y holds NaN for an example without
\* observation, and mae_for_source averages over the examples whose y is
\* not NaN
evaluate_calibrator_targets(examples) ==
    LET y == [e \in 1..Len(examples) |->
                 IF examples[e] # <<>> THEN Mean(examples[e]) ELSE NaN]
        NotNaN(e) == y[e] # NaN
        idx == SelectSeq([e \in 1..Len(examples) |-> e], NotNaN)
    IN  [j \in 1..Len(idx) |-> Target(idx[j], y[idx[j]])]

\* the percentile values of the observations, and the observation lists of
\* the examples of a dataset
Percentiles == {Rat(20, 1), Rat(80, 1)}

BenchmarkLists == ListsUpTo(Percentiles, MaxEntries)

CallExtractTargets ==
    /\ call = NoCall
    /\ \E examples \in ListsUpTo(BenchmarkLists, MaxExamples) :
          /\ call' = [fn |-> "extract_targets", examples |-> examples]
          /\ ret' = extract_targets(examples)
    /\ UNCHANGED <<clock, store, latest, runs, served, report>>

CallLibCalibratorTargets ==
    /\ call = NoCall
    /\ \E examples \in ListsUpTo(BenchmarkLists, MaxExamples) :
          /\ call' = [fn |-> "train_calibrator", examples |-> examples]
          /\ ret' = lib_calibrator_targets(examples)
    /\ UNCHANGED <<clock, store, latest, runs, served, report>>

CallEvaluateCalibratorTargets ==
    /\ call = NoCall
    /\ \E examples \in ListsUpTo(BenchmarkLists, MaxExamples) :
          /\ call' = [fn |-> "evaluate_calibrator", examples |-> examples]
          /\ ret' = evaluate_calibrator_targets(examples)
    /\ UNCHANGED <<clock, store, latest, runs, served, report>>

(***************************************************************************)
(* The per-industry breakdowns of evaluate_pressure and evaluate_boundary  *)
(* of packages/learning/scripts/evaluate.py.                               *)
(***************************************************************************)
\* ex.get("industry_key") of an example without the key
NoIndustry == "None"

\* the loop header and the index list of both breakdowns: the industries
\* whose index list is not empty, each with its index list
by_industry_idx(examples) ==
    LET industries == {IF examples[i].industry_key = NoIndustry THEN "unknown"
                       ELSE examples[i].industry_key : i \in 1..Len(examples)}
        idx(industry) == {i \in 1..Len(examples) : examples[i].industry_key = industry}
    IN  [industry \in {c \in industries : idx(c) # {}} |-> idx(industry)]

\* xs[idx] for an index list in ascending order
Pick(xs, idx) ==
    LET In(i) == i \in idx
        at == SelectSeq([i \in 1..Len(xs) |-> i], In)
    IN  [j \in 1..Len(at) |-> xs[at[j]]]

\* by_industry of evaluate_boundary: the accuracy over each index list
boundary_by_industry(examples) ==
    LET idxs == by_industry_idx(examples)
    IN  [industry \in DOMAIN idxs |->
            Rat(Cardinality({i \in idxs[industry] : examples[i].correct}),
                Cardinality(idxs[industry]))]

\* by_industry of evaluate_pressure: precision@3 over each index list
pressure_by_industry(examples, argsort) ==
    LET idxs == by_industry_idx(examples)
        y        == [i \in 1..Len(examples) |-> examples[i].true]
        y_scores == [i \in 1..Len(examples) |-> examples[i].scores]
    IN  [industry \in DOMAIN idxs |->
            precision_recall_at_3(Pick(y, idxs[industry]), Pick(y_scores, idxs[industry]),
                                  argsort).precision]

\* the industries of the examples of a dataset: no key, a listed industry,
\* and "unknown" written out
Industries == {NoIndustry, "hvac", "unknown"}

\* the classified examples of a dataset
ClassifiedExamples == [industry_key : Industries, correct : BOOLEAN]

\* the scored examples of a dataset: scores that differ, and the true tag in
\* or out of the top 3
ScoredExamples ==
    {[industry_key |-> c, true |-> [t \in Tags |-> IF t = hit THEN 1 ELSE 0],
      scores |-> [t \in Tags |-> t]] : c \in Industries, hit \in {1, NumTags}}

CallBoundaryByIndustry ==
    /\ call = NoCall
    /\ \E examples \in ListsUpTo(ClassifiedExamples, MaxExamples) :
          /\ call' = [fn |-> "evaluate_boundary.by_industry", examples |-> examples]
          /\ ret' = boundary_by_industry(examples)
    /\ UNCHANGED <<clock, store, latest, runs, served, report>>

CallPressureByIndustry ==
    /\ call = NoCall
    /\ \E examples \in ListsUpTo(ScoredExamples, MaxExamples), argsort \in ArgsortBuilds :
          /\ call' = [fn |-> "evaluate_pressure.by_industry", examples |-> examples]
          /\ ret' = pressure_by_industry(examples, argsort)
    /\ UNCHANGED <<clock, store, latest, runs, served, report>>

(***************************************************************************)
(* The train_all pipeline (packages/learning/scripts/train_all.py): each   *)
(* step is one run_script call, a subprocess run to its end.               *)
(***************************************************************************)
\* the script each step of main runs
StepScript(step) ==
    CASE step = "pressure"   -> PkgPressure
      [] step = "boundary"   -> PkgBoundary
      [] step = "calibrator" -> PkgCalibrator

TrainSteps == {"pressure", "boundary", "calibrator"}

\* variant: every run_script call of a training script is inside a
\* try/except that records the failure and goes on
after_step_lenient(step, ok) ==
    CASE step = "pressure"   -> "boundary"
      [] step = "boundary"   -> "calibrator"
      [] step = "calibrator" -> "evaluate"
      [] step = "evaluate"   -> IF ok THEN "summary" ELSE "aborted"

\* where main goes after a run_script call that returned (ok) or raised
\* RuntimeError on a non-zero return code: only the calibrator call is
\* inside a try/except
after_step(step, ok) ==
    CASE step = "pressure"   -> IF ok THEN "boundary" ELSE "aborted"
      [] step = "boundary"   -> IF ok THEN "calibrator" ELSE "aborted"
      [] step = "calibrator" -> "evaluate"
      [] step = "evaluate"   -> IF ok THEN "summary" ELSE "aborted"

\* the exit status of main at a position
PipelineExit(pc) ==
    CASE pc = "aborted" -> "nonzero"
      [] pc = "done"    -> "zero"
      [] OTHER          -> "none"

\* main at a position: the examples loaded, the run_script calls made so
\* far with their outcome, the "skipped" entry of the summary, and whether
\* training_summary.json was written
Pipeline(pc, n, log, skipped, written) ==
    [fn |-> "train_all", pc |-> pc, examples |-> n, log |-> log,
     skipped |-> skipped, summary_written |-> written, exit |-> PipelineExit(pc)]

\* main up to the check of the number of examples
TrainAllStart ==
    /\ call = NoCall
    /\ \E n \in ExampleCounts :
          call' = Pipeline(IF n < MinExamples THEN "aborted" ELSE "pressure",
                           n, <<>>, FALSE, FALSE)
    /\ UNCHANGED <<clock, store, latest, runs, served, report, ret>>

\* run_script of a training script: the subprocess writes its version and
\* returns 0, or raises before its mkdir and returns non-zero
TrainAllTrain(step) ==
    /\ call.fn = "train_all"
    /\ call.pc = step
    /\ \E ok \in BOOLEAN, p \in ScriptPrecisions(StepScript(step)) :
          LET s == StepScript(step)
              v == ScriptVersion(s, clock)
          IN  /\ store' = IF ok
                          THEN WriteFrom(MkDirExistOk(store, ScriptFamily(s), v), s, v, 1, p, 1)
                          ELSE store
              /\ call' = Pipeline(after_step(step, ok), call.examples,
                                  Append(call.log, [step |-> step, ok |-> ok]),
                                  call.skipped \/ (step = "calibrator" /\ ~ok),
                                  FALSE)
    /\ UNCHANGED <<clock, latest, runs, served, report, ret>>

\* run_script of evaluate.py
TrainAllEvaluate ==
    /\ call.fn = "train_all"
    /\ call.pc = "evaluate"
    /\ \E labels \in GateDatasets, p \in PrecisionValues :
          LET summary == gate(store, labels, p)
          IN  /\ report' = summary
              /\ store' = store_after_evaluation(store, summary)
              /\ call' = Pipeline(after_step("evaluate", summary.status = "ok"),
                                  call.examples,
                                  Append(call.log, [step |-> "evaluate",
                                                    ok |-> summary.status = "ok"]),
                                  call.skipped, FALSE)
    /\ UNCHANGED <<clock, latest, runs, served, ret>>

\* summary_path.write_text(...) and the end of main
TrainAllSummary ==
    /\ call.fn = "train_all"
    /\ call.pc = "summary"
    /\ call' = Pipeline("done", call.examples, call.log, call.skipped, TRUE)
    /\ UNCHANGED <<clock, store, latest, runs, served, report, ret>>

(***************************************************************************)
(* Specifications.                                                         *)
(***************************************************************************)
Init ==
    /\ clock = Epoch
    /\ store = [fam \in Families |-> NoRoot]
    /\ latest = NoPointer
    /\ runs = [r \in Runs |-> IdleRun]
    /\ served = NoOutput
    /\ report = NoOutput
    /\ call = NoCall
    /\ ret = NoVersion

\* training runs as concurrent processes, each step one file system call
Next ==
    \/ Tick
    \/ \E r \in Runs, s \in Scripts : StartTrain(r, s)
    \/ \E r \in Runs : MkDir(r)
    \/ \E r \in Runs : WriteFile(r)

Spec == Init /\ [][Next]_vars

\* training invocations one after the other, promotion, and one inference
\* invocation in the state they reach
NextLifecycle ==
    \/ served = NoOutput /\ Tick
    \/ \E r \in Runs, s \in Scripts : served = NoOutput /\ TrainRun(r, s)
    \/ \E v \in VersionNames : served = NoOutput /\ Promote(v)
    \/ served = NoOutput /\ LoadModels
    \/ \E v \in VersionNames \cup {LatestSentinel} : served = NoOutput /\ InferCohort(v)

SpecLifecycle == Init /\ [][NextLifecycle]_vars

\* the scripts that write the families the gate evaluates
GateScripts == PkgScripts \cup LibScripts

\* training invocations one after the other, and one evaluation of the gate
\* in the state they reach
NextGate ==
    \/ report = NoOutput /\ Tick
    \/ \E r \in Runs, s \in GateScripts : report = NoOutput /\ TrainRun(r, s)
    \/ report = NoOutput /\ Evaluate

SpecGate == Init /\ [][NextGate]_vars

\* the cohort family: training invocations one after the other, promotion,
\* evaluations of a version, and one inference invocation in the state they
\* reach
NextCohort ==
    \/ served = NoOutput /\ Tick
    \/ \E r \in Runs : served = NoOutput /\ TrainRun(r, CohortTrain)
    \/ \E v \in CohortVersionNames : served = NoOutput /\ Promote(v)
    \/ \E v \in CohortVersionNames, data \in CohortDatasets :
          served = NoOutput /\ EvaluateCohorts(v, data)
    \/ \E v \in CohortVersionNames \cup {LatestSentinel} :
          served = NoOutput /\ InferCohort(v)

SpecCohort == Init /\ [][NextCohort]_vars

\* training runs as concurrent processes, and one inference invocation or one
\* evaluation of the gate in a state they reach, possibly between two writes
\* of a run
NextServe ==
    \/ \E r \in Runs, s \in GateScripts :
          served = NoOutput /\ report = NoOutput /\ StartTrain(r, s)
    \/ \E r \in Runs : served = NoOutput /\ report = NoOutput /\ MkDir(r)
    \/ \E r \in Runs : served = NoOutput /\ report = NoOutput /\ WriteFile(r)
    \/ served = NoOutput /\ report = NoOutput /\ LoadModels
    \/ served = NoOutput /\ report = NoOutput /\ Evaluate

SpecServe == Init /\ [][NextServe]_vars

\* the version resolution and false-safe routines on enumerated arguments
NextFn ==
    \/ CallLatest
    \/ CallPrevious
    \/ CallEvaluateBoundary
    \/ CallLibEvaluateBoundary
    \/ CallPrecisionRecall
    \/ CallTopIndices

SpecFn == Init /\ [][NextFn]_vars

\* the three encoders on enumerated mappings
NextCodec ==
    \/ CallVectorize
    \/ CallTrainExtract
    \/ CallEvaluateExtract

SpecCodec == Init /\ [][NextCodec]_vars

\* the scripts whose families the inference entry points read
InferScripts == {PkgPressure, PkgBoundary, CohortTrain}

\* training invocations one after the other, promotion, and one invocation
\* of an inference entry point in the state they reach
NextInfer ==
    \/ served = NoOutput /\ Tick
    \/ \E r \in Runs, s \in InferScripts : served = NoOutput /\ TrainRun(r, s)
    \/ \E v \in CohortVersionNames : served = NoOutput /\ Promote(v)
    \/ \E text \in InferenceTexts : served = NoOutput /\ InferMain(text)
    \/ \E v \in CohortVersionNames \cup {LatestSentinel}, text \in InferenceTexts :
          served = NoOutput /\ InferCohortMain(v, text)

SpecInfer == Init /\ [][NextInfer]_vars

\* the batch encodings, the calibrator targets and the per-industry
\* breakdowns on enumerated datasets
NextBatch ==
    \/ CallCohortBatch
    \/ CallBuildFeatureMatrix
    \/ CallExtractTargets
    \/ CallLibCalibratorTargets
    \/ CallEvaluateCalibratorTargets
    \/ CallBoundaryByIndustry
    \/ CallPressureByIndustry

SpecBatch == Init /\ [][NextBatch]_vars

\* one invocation of train_all.py while the clock runs
NextPipeline ==
    \/ Tick
    \/ TrainAllStart
    \/ \E step \in TrainSteps : TrainAllTrain(step)
    \/ TrainAllEvaluate
    \/ TrainAllSummary

SpecPipeline == Init /\ [][NextPipeline]_vars

(***************************************************************************)
(* Properties.                                                             *)
(***************************************************************************)
\* lexicographic order of names, stated by the first position that differs
LexBefore(a, b) ==
    \E i \in 1..(Len(b)) :
        /\ \A j \in 1..(i - 1) : j <= Len(a) /\ a[j] = b[j]
        /\ i - 1 <= Len(a)
        /\ (i <= Len(a) => a[i] < b[i])

\* the greatest name of a non-empty set
Greatest(S) == CHOOSE v \in S : \A w \in S \ {v} : LexBefore(w, v)

\* the pressure selector version before the newest one, where there is one
\* and it holds a metrics.json
PreviousRecorded ==
    LET dirs == DOMAIN store["pressure_selector"].dirs
    IN  /\ Cardinality(dirs) >= 2
        /\ "metrics.json" \in DOMAIN store["pressure_selector"].dirs[Greatest(dirs \ {Greatest(dirs)})]

PreviousPrecision ==
    LET dirs == DOMAIN store["pressure_selector"].dirs
    IN  store["pressure_selector"].dirs[Greatest(dirs \ {Greatest(dirs)})]["metrics.json"].precision_at_3

\* the false-safe rate of the report is above 0.02
FalseSafeTrigger == 100 * report.false_safe_rate.n > 2 * report.false_safe_rate.d

\* previous precision@3 minus the scored precision@3 is above 0.05
PrecisionDropTrigger ==
    /\ PreviousRecorded
    /\ LET prev == PreviousPrecision
           cur  == report.pressure.precision_at_3
       IN  100 * (prev.n * cur.d - cur.n * prev.d) > 5 * prev.d * cur.d

\* C1: the verdict of the gate is FAIL exactly when the false-safe rate is
\* strictly above 0.02 or a previous pressure selector version with a
\* recorded precision@3 exists and the precision@3 dropped by strictly more
\* than 0.05 from it; it is PASS in every other case.
C1_GateVerdict ==
    report.status = "ok" =>
        /\ report.regression_status \in {"PASS", "FAIL"}
        /\ report.regression_status = "FAIL" <=> (FalseSafeTrigger \/ PrecisionDropTrigger)

\* a drop of exactly 0.05 (0.60 -> 0.55) with no false-safe example: PASS
C1_Witness ==
    /\ report.status = "ok"
    /\ PreviousRecorded
    /\ PreviousPrecision = Rat(60, 100)
    /\ report.pressure.precision_at_3 = Rat(55, 100)
    /\ report.regression_status = "PASS"

\* the unsafe examples of a list and those of them predicted "stable"
UnsafeExamples(labels) ==
    {i \in 1..Len(labels) : labels[i].true \notin {"stable", "unknown"}}

FalseSafeExamples(labels) ==
    {i \in UnsafeExamples(labels) : labels[i].pred = "stable"}

\* C2: the false-safe rate the gate's evaluate_boundary computes is the
\* number of examples with an unsafe true class (neither "stable" nor
\* "unknown") that are predicted "stable", divided by the number of examples
\* with an unsafe true class.
C2_GateFalseSafeRate ==
    (call.fn = "evaluate_boundary" /\ UnsafeExamples(call.labels) # {}) =>
        ret.n * Cardinality(UnsafeExamples(call.labels))
            = Cardinality(FalseSafeExamples(call.labels)) * ret.d

\* the same statement of the routines of src/lib/learning (it holds of them)
C2_LibFalseSafeRate ==
    (call.fn = "evaluate_boundary_classifier" /\ UnsafeExamples(call.labels) # {}) =>
        ret.n * Cardinality(UnsafeExamples(call.labels))
            = Cardinality(FalseSafeExamples(call.labels)) * ret.d

\* C3: an inference invocation that names no version (or "latest") serves,
\* for every family it serves, the version the LATEST pointer names, and
\* serves nothing when no pointer is recorded.
C3_InferenceServesPromoted ==
    (served # NoOutput /\ served.selector = LatestSentinel /\ served.result.status = "ok") =>
        \A fam \in DOMAIN served.result.versions :
            latest.recorded /\ served.result.versions[fam] = latest.model_version

\* the runs of a family that returned
DoneRuns(fam) == {r \in Runs : runs[r].pc = "done" /\ ScriptFamily(runs[r].script) = fam}

\* C4: after N successful training invocations of a family, run one after
\* the other, the family holds N distinct versions and the latest version
\* is the one the Nth invocation wrote.
C4_OneVersionPerRun ==
    \A fam \in Families :
        /\ Cardinality(VersionDirs(store[fam])) = Cardinality(DoneRuns(fam))
        /\ DoneRuns(fam) # {} =>
              latest_model_dir(store[fam])
                  = runs[CHOOSE r \in DoneRuns(fam) : \A q \in DoneRuns(fam) : q <= r].version

\* the runs that wrote a file of a version directory
Writers(dir) == {dir[f].by : f \in DOMAIN dir}

\* C5: two concurrent training runs of a family never allocate the same
\* version, and no version directory holds the artifacts of two runs.
C5_ConcurrentRunsDistinct ==
    /\ \A r, q \in Runs :
          (/\ r # q
           /\ runs[r].version # NoVersion
           /\ runs[q].version # NoVersion
           /\ ScriptFamily(runs[r].script) = ScriptFamily(runs[q].script))
              => runs[r].version # runs[q].version
    /\ \A fam \in Families : \A v \in VersionDirs(store[fam]) :
          Cardinality(Writers(store[fam].dirs[v])) <= 1

\* a directory holds every file of one of the routines of its family
Complete(fam, dir) ==
    \E s \in Scripts :
        /\ ScriptFamily(s) = fam
        /\ \A k \in 1..Len(ScriptFiles(s)) : ScriptFiles(s)[k] \in DOMAIN dir

\* C6: the version that latest_model_dir or previous_model_dir resolves
\* always holds its estimator, its side file and its metadata.
C6_ResolvedVersionComplete ==
    \A fam \in Families :
        LET v == latest_model_dir(store[fam])
            w == previous_model_dir(store[fam], v)
        IN  /\ v # NoVersion => Complete(fam, store[fam].dirs[v])
            /\ w # NoVersion => Complete(fam, store[fam].dirs[w])

\* C7: a training invocation leaves every version that exists before it as
\* it is.
C7_VersionsImmutable ==
    [][\A fam \in Families : \A v \in VersionDirs(store[fam]) :
          /\ v \in VersionDirs(store'[fam])
          /\ store'[fam].dirs[v] = store[fam].dirs[v]]_vars

\* C8: latest_model_dir returns the lexicographically greatest version
\* directory, and none when the root does not exist or holds no directory.
C8_LatestIsGreatest ==
    call.fn = "latest_model_dir" =>
        IF ~call.root.exists \/ DOMAIN call.root.dirs = {}
        THEN ret = NoVersion
        ELSE /\ ret \in DOMAIN call.root.dirs
             /\ \A w \in DOMAIN call.root.dirs \ {ret} : LexBefore(w, ret)

\* "v1" is returned from a listing that holds "v08" and timestamp names
C8_Witness ==
    /\ call.fn = "latest_model_dir"
    /\ {StrfTime(Epoch + 2), CohortVersion(Epoch), LibVersion} \subseteq DOMAIN call.root.dirs
    /\ ret = LibVersion

\* the names of a listing that sort before / after a name
Before(S, v) == {w \in S : LexBefore(w, v)}

After(S, v) == {w \in S : LexBefore(v, w)}

DetailTexts == {report.regression_details[i].text : i \in 1..Len(report.regression_details)}

\* C10: the recorded details name exactly the triggers that fired, "no
\* regression triggers" is recorded exactly when none fired, and the status
\* is FAIL exactly when a trigger entry is recorded.
C10_DetailsNameTriggers ==
    report.status = "ok" =>
        /\ "false-safe rate" \in DetailTexts <=> FalseSafeTrigger
        /\ "precision@3 drop" \in DetailTexts <=> PrecisionDropTrigger
        /\ "no regression triggers" \in DetailTexts
              <=> ~(FalseSafeTrigger \/ PrecisionDropTrigger)
        /\ report.regression_status = "FAIL"
              <=> DetailTexts \cap {"false-safe rate", "precision@3 drop"} # {}

\* the false-safe trigger alone fired on an evaluated boundary classifier
C10_Witness ==
    /\ report.status = "ok"
    /\ report.boundary.found
    /\ report.pressure.found
    /\ FalseSafeTrigger
    /\ DetailTexts = {"false-safe rate"}
    /\ report.regression_status = "FAIL"

\* the sets of 3 highest-scored tags of a score row (all tags of a shorter
\* row): no tag outside the set scores above a tag inside it
Highest3(score_row) ==
    {T \in SUBSET (1..Len(score_row)) :
        /\ Cardinality(T) = (IF Len(score_row) < 3 THEN Len(score_row) ELSE 3)
        /\ \A a \in T, b \in (1..Len(score_row)) \ T : score_row[a] >= score_row[b]}

\* one set of 3 highest-scored tags per score row
Top3Choices ==
    {c \in [ScoreRows -> UNION {Highest3(r) : r \in ScoreRows}] :
        \A r \in ScoreRows : c[r] \in Highest3(r)}

\* the true tags of example i of the call, and its hits under a choice
TrueSet(i) == {t \in Tags : call.y_true[i][t] = 1}

HitsOf(c, i) == Cardinality(c[call.y_scores[i]] \cap TrueSet(i))

\* sum of hits/3 and of hits/|true set| over the examples of I
RECURSIVE SumPrecision(_, _)
SumPrecision(c, I) ==
    IF I = {} THEN Rat(0, 1)
    ELSE LET i == CHOOSE x \in I : TRUE
         IN  RatAdd(Rat(HitsOf(c, i), 3), SumPrecision(c, I \ {i}))

RECURSIVE SumRecall(_, _)
SumRecall(c, I) ==
    IF I = {} THEN Rat(0, 1)
    ELSE LET i == CHOOSE x \in I : TRUE
         IN  RatAdd(Rat(HitsOf(c, i), Cardinality(TrueSet(i))), SumRecall(c, I \ {i}))

\* C11: precision@3 and recall@3 are the means, over the examples with a
\* non-empty true set, of hits/3 and hits/|true set|, where hits counts the
\* true tags among the 3 highest-scored tags; putting an example with an
\* empty true set into the dataset changes neither mean.
C11_PrecisionRecallAt3 ==
    call.fn = "precision_recall_at_3" =>
        LET scored == {i \in 1..Len(call.y_true) : TrueSet(i) # {}}
            n      == Cardinality(scored)
        IN  /\ scored # {} =>
                  \E c \in Top3Choices :
                      /\ RatEq(ret.value.precision,
                               Rat(SumPrecision(c, scored).n, SumPrecision(c, scored).d * n))
                      /\ RatEq(ret.value.recall,
                               Rat(SumRecall(c, scored).n, SumRecall(c, scored).d * n))
            /\ RatEq(ret.with_empty.precision, ret.value.precision)
            /\ RatEq(ret.with_empty.recall, ret.value.recall)

\* an example whose 3 true tags are its 3 highest-scored tags, next to an
\* example with no true tag: both means are 1.0
C11_Witness ==
    /\ call.fn = "precision_recall_at_3"
    /\ Len(call.y_true) = 2
    /\ TrueSet(1) = {}
    /\ Cardinality(TrueSet(2)) = 3
    /\ \A t \in TrueSet(2), u \in Tags \ TrueSet(2) : call.y_scores[2][t] > call.y_scores[2][u]
    /\ ret.value.precision.n = ret.value.precision.d
    /\ ret.value.recall.n = ret.value.recall.d

\* C12: the false-safe rate is defined for every dataset (its denominator is
\* not zero) and lies in [0, 1]; it is 0.0 when no example has an unsafe
\* true class.
C12_FalseSafeRateDefined ==
    call.fn \in {"evaluate_boundary", "evaluate_boundary_classifier"} =>
        /\ ret.d > 0
        /\ 0 <= ret.n
        /\ ret.n <= ret.d
        /\ UnsafeExamples(call.labels) = {} => ret.n = 0

\* a dataset of "stable" and "unknown" examples only, some predicted "stable"
C12_Witness ==
    /\ call.fn = "evaluate_boundary_classifier"
    /\ Len(call.labels) = MaxExamples
    /\ UnsafeExamples(call.labels) = {}
    /\ \E i \in 1..Len(call.labels) : call.labels[i].pred = "stable"
    /\ ret = Rat(0, 1)

\* the feature key list recorded in the metadata of the latest version of a
\* learning family
RecordedFeatureNames(fam) ==
    store[fam].dirs[latest_model_dir(store[fam])]["metadata.json"].feature_names

\* C13: inference produces a result for a family only from a vector encoded
\* with the feature key list recorded in the metadata of the version it
\* loaded; it fails when the two lists differ.
C13_SchemaParityChecked ==
    (served # NoOutput /\ served.selector = LatestSentinel /\ served.result.status = "ok") =>
        \A fam \in DOMAIN served.result.versions :
            (fam \in LearningFamilies
                /\ HasFile(store[fam], latest_model_dir(store[fam]), "metadata.json"))
                => RecordedFeatureNames(fam) = served.result.feature_keys

\* the latest version of a family holds its estimator and its side file
FamilyAvailable(fam) ==
    /\ VersionDirs(store[fam]) # {}
    /\ HasFile(store[fam], Greatest(VersionDirs(store[fam])), "model.pkl")
    /\ HasFile(store[fam], Greatest(VersionDirs(store[fam])), SideFile(fam))

\* C14: multi-family inference and evaluation skip a family without a
\* version, or whose version lacks its estimator or side file, and do not
\* abort: the output holds an entry for exactly the families that could be
\* loaded.
C14_MissingFamilySkipped ==
    /\ served # NoOutput =>
          /\ served.result.status = "ok"
          /\ DOMAIN served.result.versions = {fam \in LearningFamilies : FamilyAvailable(fam)}
    /\ report # NoOutput =>
          /\ report.status = "ok"
          /\ report.pressure.found <=> FamilyAvailable("pressure_selector")
          /\ report.boundary.found <=> FamilyAvailable("boundary_classifier")

\* C15: a training invocation that loaded fewer examples than the minimum
\* ended with a non-zero exit status, allocated no version and wrote no
\* file.
C15_TooFewExamplesRejected ==
    \A r \in Runs :
        (runs[r].script # None /\ runs[r].examples < MinExamples) =>
            /\ runs[r].exit = "nonzero"
            /\ runs[r].version = NoVersion
            /\ \A fam \in Families : \A v \in VersionDirs(store[fam]) :
                  r \notin Writers(store[fam].dirs[v])

\* C16: a step that trains, evaluates or serves leaves the LATEST pointer as
\* it is, and the metadata a cohort training run writes records the version
\* as not promoted.
C16_LatestPointerFrame ==
    [][/\ (runs' # runs \/ store' # store \/ call' # call \/ served' # served
              \/ report' # report) => latest' = latest
       /\ \A r \in Runs :
             (runs[r].pc # "done" /\ runs'[r].pc = "done" /\ runs'[r].script = CohortTrain) =>
                 store'["cohort_engine"].dirs[runs'[r].version]["meta.json"].promoted = "False"]_vars

\* a version was promoted, a later version was trained and evaluated, and
\* inference by "latest" still served the promoted one
C16_Witness ==
    /\ latest.recorded
    /\ latest.model_version # latest_model_dir(store["cohort_engine"])
    /\ call.fn = "evaluate_cohort_engine"
    /\ call.model_version = latest_model_dir(store["cohort_engine"])
    /\ served # NoOutput
    /\ served.selector = LatestSentinel
    /\ served.result.status = "ok"
    /\ served.result.versions["cohort_engine"] = latest.model_version

\* the meta.json of a version of the cohort family, without its four scores
MetaFrame(st, v) == [st["cohort_engine"].dirs[v]["meta.json"] EXCEPT !.scores = NoScores]

\* C17: a cohort evaluation (a step that is no clock tick, training run,
\* promotion or inference) changes nothing but the silhouette, stability,
\* outlier-rate and min-cluster-size entries of the version's meta.json (the
\* promotion flag, the feature list, the estimator, the ranges file and every
\* other version stay as they are), and running it again on the same
\* version and data leaves the metadata it left the first time.
C17_MetadataPatchIdempotent ==
    [][(call'.fn = "evaluate_cohort_engine" /\ UNCHANGED <<clock, runs, latest, served>>) =>
          LET v  == call'.model_version
              c  == store["cohort_engine"]
              c2 == store'["cohort_engine"]
          IN  /\ \A fam \in Families \ {"cohort_engine"} : store'[fam] = store[fam]
              /\ c2.exists = c.exists
              /\ DOMAIN c2.dirs = DOMAIN c.dirs
              /\ \A w \in DOMAIN c.dirs : DOMAIN c2.dirs[w] = DOMAIN c.dirs[w]
              /\ \A w \in DOMAIN c.dirs : \A f \in DOMAIN c.dirs[w] :
                    (w # v \/ f # "meta.json") => c2.dirs[w][f] = c.dirs[w][f]
              /\ HasFile(c, v, "meta.json") => MetaFrame(store', v) = MetaFrame(store, v)
              /\ evaluate_cohort_engine(c2, v, call'.data) = c2]_vars

\* a version was evaluated on the dataset of 100 rows: its meta.json records
\* the scores of that evaluation, stability included, and is still not
\* promoted
C17_Witness ==
    /\ call.fn = "evaluate_cohort_engine"
    /\ HasFile(store["cohort_engine"], call.model_version, "meta.json")
    /\ SumOf(call.data.counts) >= StabilityRows
    /\ store["cohort_engine"].dirs[call.model_version]["meta.json"].scores.stability_ari
          = call.data.ari
    /\ store["cohort_engine"].dirs[call.model_version]["meta.json"].scores
          # TrainedScores
    /\ store["cohort_engine"].dirs[call.model_version]["meta.json"].promoted = "False"

\* C18: the suggested tags are 3 different tags in descending order of
\* score, no tag left out scores above a suggested one, and among tags of
\* equal score the one earlier in the stored tag list is ranked first and is
\* the one included.
C18_Top3TieOrder ==
    call.fn = "top_indices" =>
        /\ Len(ret) = 3
        /\ \A i, j \in 1..Len(ret) : i < j =>
              \/ call.scores[ret[i]] > call.scores[ret[j]]
              \/ (call.scores[ret[i]] = call.scores[ret[j]] /\ ret[i] < ret[j])
        /\ \A t \in Tags \ {ret[i] : i \in 1..Len(ret)} : \A i \in 1..Len(ret) :
              \/ call.scores[t] < call.scores[ret[i]]
              \/ (call.scores[t] = call.scores[ret[i]] /\ ret[i] < t)

\* the encoders the repository applies to a feature mapping
EncoderCalls == {"vectorize_features", "extract_feature_matrix", "extract_feature_matrix_named"}

\* C19: encoding a mapping again, in the same or in another process, or
\* with its items in another order, gives the vector of the first encoding.
C19_EncodingPure ==
    call.fn \in EncoderCalls =>
        /\ ret.again = ret.first
        /\ ret.other_process = ret.first
        /\ ret.permuted = ret.first

\* the same statement of vectorize_features alone (it holds of it)
C19_VectorizePure ==
    call.fn = "vectorize_features" =>
        /\ ret.again = ret.first
        /\ ret.other_process = ret.first
        /\ ret.permuted = ret.first

\* the value a mapping of the call gives a key, or none
ValueOf(key) ==
    IF \E i \in 1..Len(call.features) : call.features[i].key = key
    THEN {call.features[i].value : i \in {j \in 1..Len(call.features) : call.features[j].key = key}}
    ELSE {}

\* the codes of the categorical tables
TableCode(key, str) ==
    CASE key = "industry_key" /\ str = "hvac" -> 1
      [] key = "window_rule" /\ str = "custom" -> 3
      [] OTHER -> 0

\* the entry the contract gives a schema key
Encoded(key) ==
    IF ValueOf(key) = {} \/ ValueOf(key) = {PyNone} THEN Rat(0, 1)
    ELSE LET value == CHOOSE x \in ValueOf(key) : TRUE
         IN  CASE value.type = "bool" -> IF value.b THEN Rat(1, 1) ELSE Rat(0, 1)
               [] value.type = "number" -> value.x
               [] value.type = "str" -> Rat(TableCode(key, value.s), 1)

\* C20: the encoded vector has one entry per schema key, in schema order:
\* 0.0 for an absent key, 1.0/0.0 for a boolean, the value of a number, the
\* table code of a string under a key with a table (0 if unseen) and 0.0
\* for any other string; keys outside the schema have no effect.
C20_EncodingContract ==
    call.fn \in {"vectorize_features", "extract_feature_matrix_named"} =>
        /\ Len(ret.first) = Len(call.schema)
        /\ \A i \in 1..Len(call.schema) : RatEq(ret.first[i], Encoded(call.schema[i]))

\* the same statement of vectorize_features alone (it holds of it)
C20_VectorizeContract ==
    call.fn = "vectorize_features" =>
        /\ Len(ret.first) = Len(call.schema)
        /\ \A i \in 1..Len(call.schema) : RatEq(ret.first[i], Encoded(call.schema[i]))

\* the invocations of an inference entry point that gave a row to an
\* estimator
Predicted(entry) ==
    /\ served # NoOutput
    /\ served.entry = entry
    /\ "predict" \in Range(served.result.log)

\* C21: at single-example inference a NaN value of a numeric feature is
\* encoded as 0.0 for every model family: no row given to an estimator holds
\* NaN.
C21_NoNaNReachesEstimator ==
    \A entry \in {"infer", "infer_cohort"} :
        Predicted(entry) =>
            \A i \in 1..Len(served.result.X) : served.result.X[i] # NaN

\* the cohort entry point alone gives no estimator a NaN
C21_CohortNaNCoerced ==
    Predicted("infer_cohort") =>
        \A i \in 1..Len(served.result.X) : served.result.X[i] # NaN

\* C23: malformed feature JSON ends the invocation with a non-zero exit
\* before any model version is resolved or loaded, at both inference entry
\* points: json.loads is the only call made.
C23_MalformedReportedBeforeLoad ==
    (served # NoOutput /\ ~served.text.wellformed) =>
        /\ served.result.exit = "nonzero"
        /\ served.result.log = <<"json.loads">>

\* malformed JSON given to infer.py while a family is loadable, and to
\* infer_cohort.py while the asked version is loadable
C23_Witness ==
    /\ served # NoOutput
    /\ ~served.text.wellformed
    /\ \/ served.entry = "infer" /\ Loaded(store, "pressure_selector")
       \/ /\ served.entry = "infer_cohort"
          /\ infer_cohort(store["cohort_engine"], latest, served.selector).status = "ok"

\* the version a cohort invocation resolves
ResolvedCohortVersion ==
    IF served.selector = LatestSentinel THEN latest.model_version ELSE served.selector

\* the entry the zero-fill rule gives a key of the input mapping
ZeroFilled(features, key) ==
    LET present == {i \in 1..Len(features) : features[i].key = key}
    IN  IF present = {} THEN Rat(0, 1)
        ELSE LET value == features[CHOOSE i \in present : TRUE].value
             IN  IF value = PyNone THEN Rat(0, 1)
                 ELSE IF value.type = "bool" THEN (IF value.b THEN Rat(1, 1) ELSE Rat(0, 1))
                 ELSE IF value.x = NaN THEN Rat(0, 1)
                 ELSE value.x

BatchValue(e) ==
    IF call.examples[e] = <<>> THEN NaN ELSE call.examples[e][1].value.x

\* the numbers the batch in call holds for the numeric feature
BatchObserved == {e \in 1..Len(call.examples) : BatchValue(e) # NaN}

\* m is the median of the observed numbers: the mean of the lower and the
\* upper middle of them
IsBatchMedian(m) ==
    \E lo, hi \in BatchObserved :
        LET n == Cardinality(BatchObserved)
            Below(x) == Cardinality({e \in BatchObserved : RatGt(x, BatchValue(e))})
            UpTo(x)  == Cardinality({e \in BatchObserved : ~RatGt(BatchValue(e), x)})
        IN  /\ Below(BatchValue(lo)) <= (n - 1) \div 2 /\ UpTo(BatchValue(lo)) > (n - 1) \div 2
            /\ Below(BatchValue(hi)) <= n \div 2 /\ UpTo(BatchValue(hi)) > n \div 2
            /\ RatEq(m, Mean(<<BatchValue(lo), BatchValue(hi)>>))

BatchCalls == {"train_cohort_engine", "build_feature_matrix"}

\* C22: the batch encoding of every training routine keeps every example of
\* the batch and replaces a missing or NaN numeric value by the median of
\* the column over the batch.
C22_BatchMedianImputed ==
    (call.fn \in BatchCalls /\ BatchObserved # {}) =>
        /\ Len(ret.column) = Len(call.examples)
        /\ \A e \in 1..Len(ret.column) :
              /\ ret.column[e] # NaN
              /\ IF BatchValue(e) # NaN THEN RatEq(ret.column[e], BatchValue(e))
                 ELSE IsBatchMedian(ret.column[e])

\* what train_cohort_engine does: on a batch whose examples all hold the
\* key, a NaN is replaced by the median of the column
C22_CohortNaNImputed ==
    (/\ call.fn = "train_cohort_engine"
     /\ BatchObserved # {}
     /\ \A e \in 1..Len(call.examples) : call.examples[e] # <<>>) =>
        /\ Len(ret.column) = Len(call.examples)
        /\ \A e \in 1..Len(ret.column) :
              /\ ret.column[e] # NaN
              /\ IF BatchValue(e) # NaN THEN RatEq(ret.column[e], BatchValue(e))
                 ELSE IsBatchMedian(ret.column[e])

TargetCalls == {"extract_targets", "train_calibrator", "evaluate_calibrator"}

\* the target the rule gives the e-th example of the dataset in call
RuleTarget(e) ==
    IF call.examples[e] = <<>> THEN Rat(50, 1)
    ELSE Rat(RatSum(call.examples[e]).n, RatSum(call.examples[e]).d * Len(call.examples[e]))

\* C25: in training and in evaluation every loaded example contributes one
\* calibrator target: the mean of the percentiles of its benchmark
\* observations, or 50.0 when it has none.
C25_CalibratorTargets ==
    call.fn \in TargetCalls =>
        /\ Len(ret) = Len(call.examples)
        /\ \A e \in 1..Len(ret) :
              ret[e].example = e /\ RatEq(ret[e].y, RuleTarget(e))

\* the routine of src/lib/learning/train.py gives every example its target
C25_LibCalibratorTargets ==
    call.fn = "train_calibrator" =>
        /\ Len(ret) = Len(call.examples)
        /\ \A e \in 1..Len(ret) :
              ret[e].example = e /\ RatEq(ret[e].y, RuleTarget(e))

\* the category of the e-th example of the dataset in call
Category(e) ==
    IF call.examples[e].industry_key = "None" THEN "unknown"
    ELSE call.examples[e].industry_key

\* the examples of a category
CategoryExamples(c) == {e \in 1..Len(call.examples) : Category(e) = c}

\* the metric of a breakdown over a set of examples of the dataset in call
CategoryMetric(S) ==
    IF call.fn = "evaluate_boundary.by_industry"
    THEN Rat(Cardinality({e \in S : call.examples[e].correct}), Cardinality(S))
    ELSE LET hits == {e \in S : call.examples[e].true[NumTags] = 1}
         IN  Rat(Cardinality(hits), 3 * Cardinality(S))

BreakdownCalls == {"evaluate_boundary.by_industry", "evaluate_pressure.by_industry"}

\* C26: the breakdown has one entry for every category present in the
\* data, an example without category counting as "unknown", each computed
\* over exactly the examples of that category.
C26_BreakdownCoversEveryExample ==
    call.fn \in BreakdownCalls =>
        /\ DOMAIN ret = {Category(e) : e \in 1..Len(call.examples)}
        /\ \A c \in DOMAIN ret : RatEq(ret[c], CategoryMetric(CategoryExamples(c)))

\* what the loops do: on a dataset whose examples all hold the key, one
\* entry per category over the examples of the category
C26_KeyedExamplesCovered ==
    (/\ call.fn \in BreakdownCalls
     /\ \A e \in 1..Len(call.examples) : call.examples[e].industry_key # "None") =>
        /\ DOMAIN ret = {Category(e) : e \in 1..Len(call.examples)}
        /\ \A c \in DOMAIN ret : RatEq(ret[c], CategoryMetric(CategoryExamples(c)))

\* C27: a run of the evaluation gate leaves the model store as it was,
\* whatever its verdict: no version of a family is added, deleted, promoted
\* or modified by the step that writes the report.
C27_GateLeavesStoreUnchanged ==
    [][report' # report => (store' = store /\ latest' = latest)]_vars

\* a FAIL verdict on a store that holds a previous and a latest pressure
\* selector version
C27_Witness ==
    /\ report # NoOutput
    /\ report.status = "ok"
    /\ report.regression_status = "FAIL"
    /\ previous_model_dir(store["pressure_selector"],
                          latest_model_dir(store["pressure_selector"])) # NoVersion

\* C28: a PASS verdict implies that a boundary classifier version was
\* evaluated and that its false-safe rate was at most 0.02.
C28_PassImpliesBoundaryEvaluated ==
    (report # NoOutput /\ report.status = "ok" /\ report.regression_status = "PASS") =>
        /\ report.boundary.found
        /\ ~RatGt(report.boundary.false_safe_rate, Rat(2, 100))

\* when a boundary classifier version was evaluated, PASS implies a
\* false-safe rate of at most 0.02
C28_PassWithBoundaryBounded ==
    (/\ report # NoOutput
     /\ report.status = "ok"
     /\ report.regression_status = "PASS"
     /\ report.boundary.found) =>
        ~RatGt(report.boundary.false_safe_rate, Rat(2, 100))

\* C29: previous_model_dir given a recorded version as current never
\* returns current nor a version that sorts after current, and returns none
\* when current is the oldest recorded version.
C29_PreviousNeverCurrentOrLater ==
    (call.fn = "previous_model_dir" /\ HasDir(call.root, call.current)) =>
        /\ ret # call.current
        /\ ret # NoVersion => StrLt(ret, call.current)
        /\ (\A v \in DOMAIN call.root.dirs : v = call.current \/ StrLt(call.current, v)) =>
               ret = NoVersion

\* what holds of the call evaluate_pressure makes: with the latest version
\* as current the result is none or sorts before current
C29_PreviousOfLatest ==
    (/\ call.fn = "previous_model_dir"
     /\ HasDir(call.root, call.current)
     /\ call.current = latest_model_dir(call.root)) =>
        /\ ret # call.current
        /\ ret # NoVersion => StrLt(ret, call.current)

\* the steps of the pipeline in their order
PipelineOrder == <<"pressure", "boundary", "calibrator", "evaluate">>

\* the run_script call of a step was made, and it returned or raised
Ran(step) == \E i \in 1..Len(call.log) : call.log[i].step = step

Succeeded(step) == \E i \in 1..Len(call.log) : call.log[i].step = step /\ call.log[i].ok

Failed(step) == \E i \in 1..Len(call.log) : call.log[i].step = step /\ ~call.log[i].ok

\* C30: train_all runs pressure selector training, boundary classifier
\* training, calibrator training and evaluation in that order; evaluation
\* runs only after both pressure selector and boundary classifier training
\* succeeded; a failure of either, or fewer than 10 examples, ends the run
\* with an error before evaluation and before training_summary.json is
\* written; a calibrator failure is recorded as skipped and the run goes on
\* to evaluation.
C30_PipelineOrder ==
    call.fn = "train_all" =>
        /\ Len(call.log) <= Len(PipelineOrder)
        /\ \A i \in 1..Len(call.log) : call.log[i].step = PipelineOrder[i]
        /\ Ran("evaluate") => Succeeded("pressure") /\ Succeeded("boundary")
        /\ (Failed("pressure") \/ Failed("boundary") \/ call.examples < 10) =>
               /\ call.exit = "nonzero"
               /\ ~Ran("evaluate")
               /\ ~call.summary_written
        /\ call.examples < 10 => call.log = <<>>
        /\ Failed("calibrator") =>
               /\ call.skipped
               /\ Ran("evaluate") \/ call.pc = "evaluate"
        /\ call.summary_written => Succeeded("evaluate")

\* a run whose calibrator training failed and that wrote its summary after
\* the evaluation
C30_Witness ==
    /\ call.fn = "train_all"
    /\ Failed("calibrator")
    /\ Ran("evaluate")
    /\ call.summary_written
    /\ call.exit = "zero"

\* a run that a failed boundary classifier training ended
C30_WitnessAborted ==
    /\ call.fn = "train_all"
    /\ Succeeded("pressure")
    /\ Failed("boundary")
    /\ call.exit = "nonzero"

====
